---------------------------- MODULE Spec2Model ----------------------------
(***************************************************************************)
(* A model of the chip-multiprocessor memory-system simulator: the         *)
(* set-associative cache (cache.cpp), the banked DRAM (dram.cpp) and the   *)
(* orchestrator (memsys.cpp).                                              *)
(*                                                                         *)
(* Wide machine words.  Addresses and tags are uint64_t / unsigned long    *)
(* (64 bits, LP64) and several intermediate values are `unsigned` (32      *)
(* bits).  The model checker's integers are narrower than both, so a word  *)
(* is represented by the set of the positions of its one-bits:             *)
(*      0 = {},  1 = {0},  0x40 = {6},  2^32 + 5 = {0, 2, 32}.             *)
(* Shifts, masks, or, add and the narrowing conversions are then exact at  *)
(* the real widths.  Counters, time stamps, way and set numbers stay small *)
(* in every bounded run and are plain naturals.                            *)
(***************************************************************************)
EXTENDS Integers, Sequences, FiniteSets, TLC

VARIABLES
    SIM_MODE,          \* "A", "B", "C" or "DEF"
    REPL_POLICY,       \* policy of the L1 caches
    L2CACHE_REPL,      \* policy asked for the L2 cache
    DRAM_PAGE_POLICY,  \* "OPEN_PAGE" or "CLOSE_PAGE"
    SWP_CORE0_WAYS,    \* static quota of core 0
    DWP_CORE0_WAYS,    \* dynamic quota of core 0 (cache.cpp global)
    current_cycle,     \* the driver's clock
    sys,               \* the MemorySystem
    last,              \* the most recent call: arguments, result, state before
    resident,          \* <<line_addr, core_id>> pairs known to be cached (history)
    origin,            \* the line address each way was installed under (history)
    hist,              \* the references made so far, oldest first (history)
    steps              \* number of calls made so far

vars == <<SIM_MODE, REPL_POLICY, L2CACHE_REPL, DRAM_PAGE_POLICY, SWP_CORE0_WAYS,
          DWP_CORE0_WAYS, current_cycle, sys, last, resident, origin, hist, steps>>

config == <<SIM_MODE, REPL_POLICY, L2CACHE_REPL, DRAM_PAGE_POLICY, SWP_CORE0_WAYS>>

---------------------------------------------------------------------------
(* Bounds of the model *)

\* calls made by the cache harness
MaxCalls == 3

\* references issued to the memory system
MaxRefs == 3

\* the driver's clock stops here
MaxCycle == 1

\* references of the streaming core
MaxStream == 10

\* references to the single-line data cache
MaxTiny == 4

\* accesses to the DRAM on its own
MaxDram == 4

\* references of the two cores to one virtual line
MaxShared == 2

\* calls made on the way-partitioned cache
MaxPart == 11

\* references issued under each pair of replacement policies
MaxPolicyRefs == 2

\* references issued to the memory system with 2-way L1 caches
MaxAssocRefs == 3
\* calls of SpecQuota other than the misses of core 0 below its quota
MaxQuota == 3

---------------------------------------------------------------------------
(* Program constants *)

UINT64_BITS == 64

UNSIGNED_BITS == 32

CACHE_LINESIZE == 64

PAGE_SIZE == 4096

DCACHE_HIT_LATENCY == 1

ICACHE_HIT_LATENCY == 1

L2CACHE_HIT_LATENCY == 10

DELAY_SIM_MODE_B == 100

DELAY_ACT == 45

DELAY_CAS == 45

DELAY_PRE == 45

DELAY_BUS == 10

NUM_BANKS == 16

VPN_TAIL_BITS == 20

PFN_CORE_SHIFT == 21

---------------------------------------------------------------------------
(* Machine words as sets of one-bit positions *)

\* (unsigned) std::log2 of a power of two; floor otherwise
RECURSIVE Log2(_)
Log2(n) == IF n <= 1 THEN 0 ELSE 1 + Log2(n \div 2)

\* the word holding the small natural n
Word(n) == {b \in 0..Log2(n) : (n \div (2^b)) % 2 = 1}

RECURSIVE SumPow2(_)
SumPow2(S) == IF S = {} THEN 0
              ELSE LET b == CHOOSE x \in S : TRUE IN 2^b + SumPow2(S \ {b})

\* the natural a word holds (used only where the word is known to be small)
Val(S) == SumPow2(S)

\* x >> k
ShiftRight(S, k) == {b - k : b \in {x \in S : x >= k}}

\* x << k in a 64-bit word
ShiftLeft(S, k) == {b + k : b \in {x \in S : x + k < UINT64_BITS}}

\* x & y, x | y
BitAnd(S, T) == S \cap T

BitOr(S, T) == S \cup T

\* conversion to `unsigned`
ToUnsigned(S) == {b \in S : b < UNSIGNED_BITS}

\* x + y in a 64-bit word (ripple carry)
RECURSIVE Add64(_, _)
Add64(S, T) == IF T = {} THEN S
               ELSE Add64((S \cup T) \ (S \cap T), ShiftLeft(S \cap T, 1))

Min(S) == CHOOSE x \in S : \A y \in S : x <= y

---------------------------------------------------------------------------
(* cache.cpp *)

\* a calloc'ed CacheLine
EmptyLine == [valid |-> FALSE, dirty |-> FALSE, tag |-> {}, coreID |-> 0,
              lastAccessTime |-> 0]

\* a calloc'ed CacheSet of `ways` lines (totalHits is used up to `ways` only)
EmptySet(ways) ==
    [row           |-> [w \in 0..(ways - 1) |-> EmptyLine],
     ways_per_core |-> [k \in 0..1 |-> 0],
     umon          |-> [totalHits   |-> [w \in 0..(ways - 1) |-> 0],
                        totalMisses |-> 0]]

cache_new(size, associativity, line_size, replacement_policy) ==
    LET ways       == associativity
        sets       == (size \div line_size) \div associativity
        index_bits == Log2(sets)
    IN  [ways              |-> ways,
         sets              |-> sets,
         policy            |-> replacement_policy,
         cacheGrid         |-> [s \in 0..(sets - 1) |-> EmptySet(ways)],
         lastEvictedLine   |-> EmptyLine,
         index_bits        |-> index_bits,
         index_mask        |-> 2^index_bits - 1,
         stat_read_access  |-> 0,
         stat_read_miss    |-> 0,
         stat_write_access |-> 0,
         stat_write_miss   |-> 0,
         stat_dirty_evicts |-> 0]

\* set_to_check = line_addr & c->index_mask
SetIndex(c, line_addr) == Val(BitAnd(line_addr, Word(c.index_mask)))

\* tag_to_check = line_addr >> c->index_bits
TagOf(c, line_addr) == ShiftRight(line_addr, c.index_bits)

\* variants of the lookup test: one that forgets the owner, one that forgets the tag
LineMatches_AnyCore(line, tag_to_check, core_id) ==
    /\ line.valid = TRUE
    /\ line.tag = tag_to_check

LineMatches_AnyTag(line, tag_to_check, core_id) ==
    /\ line.valid = TRUE
    /\ line.coreID = core_id

\* the test of the lookup loop
LineMatches(line, tag_to_check, core_id) ==
    /\ line.valid = TRUE
    /\ line.coreID = core_id
    /\ line.tag = tag_to_check

\* the way the lookup loop stops at, or -1
HitWay(c, set_to_check, tag_to_check, core_id) ==
    LET m == {i \in 0..(c.ways - 1) :
                LineMatches(c.cacheGrid[set_to_check].row[i], tag_to_check, core_id)}
    IN  IF m = {} THEN -1 ELSE Min(m)

\* a variant of the hit that stores is_write in the dirty bit
TouchLine_ReadCleans(line, is_write, now) ==
    [line EXCEPT !.dirty = is_write, !.lastAccessTime = now]

\* a variant of the hit that leaves the time stamp alone
TouchLine_KeepsTime(line, is_write, now) ==
    [line EXCEPT !.dirty = (line.dirty \/ is_write)]

\* what a hit does to the line
TouchLine(line, is_write, now) ==
    [line EXCEPT !.dirty = (line.dirty \/ is_write), !.lastAccessTime = now]

cache_access(c, line_addr, is_write, core_id, now) ==
    LET set_to_check == SetIndex(c, line_addr)
        tag_to_check == TagOf(c, line_addr)
        c1 == IF is_write
              THEN [c EXCEPT !.stat_write_access = @ + 1]
              ELSE [c EXCEPT !.stat_read_access = @ + 1]
        i  == HitWay(c, set_to_check, tag_to_check, core_id)
    IN  IF i >= 0
        THEN [c |-> [c1 EXCEPT
                       !.cacheGrid[set_to_check].row[i] = TouchLine(@, is_write, now),
                       !.cacheGrid[set_to_check].umon.totalHits[i] = @ + 1],
              outcome |-> "HIT", way |-> i]
        ELSE [c |-> [[c1 EXCEPT !.cacheGrid[set_to_check].umon.totalMisses = @ + 1]
                       EXCEPT !.stat_write_miss = IF is_write THEN @ + 1 ELSE @,
                              !.stat_read_miss  = IF is_write THEN @ ELSE @ + 1],
              outcome |-> "MISS", way |-> -1]

\* a variant of the "check for empty slot" loop that runs from the last way down
FirstInvalid_FromTop(row, ways) ==
    LET inv == {i \in 0..(ways - 1) : row[i].valid = FALSE}
    IN  IF inv = {} THEN -1 ELSE CHOOSE x \in inv : \A y \in inv : x >= y

\* the "check for empty slot" loop: the first invalid way, or -1
FirstInvalid(row, ways) ==
    LET inv == {i \in 0..(ways - 1) : row[i].valid = FALSE}
    IN  IF inv = {} THEN -1 ELSE Min(inv)

\* a variant of the LRU scan that moves on to a later way on equal times
RECURSIVE LRUScan_LastOnTies(_, _, _, _, _)
LRUScan_LastOnTies(row, ways, i, index, oldestTime) ==
    IF i >= ways THEN index
    ELSE IF row[i].lastAccessTime <= oldestTime
         THEN LRUScan_LastOnTies(row, ways, i + 1, i, row[i].lastAccessTime)
         ELSE LRUScan_LastOnTies(row, ways, i + 1, index, oldestTime)

\* the LRU scan from way i on, with the running minimum
RECURSIVE LRUScan(_, _, _, _, _)
LRUScan(row, ways, i, index, oldestTime) ==
    IF i >= ways THEN index
    ELSE IF row[i].lastAccessTime < oldestTime
         THEN LRUScan(row, ways, i + 1, i, row[i].lastAccessTime)
         ELSE LRUScan(row, ways, i + 1, index, oldestTime)

LRUVictim(row, ways) == LRUScan(row, ways, 0, 0, row[0].lastAccessTime)

\* a variant that also steals from core 1 when core 0 is exactly at its quota
CoreToAssign_Inclusive(ways_per_core0, quota, core_id) ==
    IF ways_per_core0 <= quota THEN 1 ELSE core_id

\* a variant that always searches among the lines of the requesting core
CoreToAssign_Requester(ways_per_core0, quota, core_id) == core_id

\* core_to_assign of the way-partitioning policies
CoreToAssign(ways_per_core0, quota, core_id) ==
    IF ways_per_core0 < quota THEN 1 ELSE core_id

\* the second loop of the way-partitioning policies
RECURSIVE PartitionScan(_, _, _, _, _, _)
PartitionScan(row, ways, core_to_assign, i, index, oldestTime) ==
    IF i >= ways THEN index
    ELSE IF row[i].coreID = core_to_assign /\ row[i].lastAccessTime < oldestTime
         THEN PartitionScan(row, ways, core_to_assign, i + 1, i, row[i].lastAccessTime)
         ELSE PartitionScan(row, ways, core_to_assign, i + 1, index, oldestTime)

\* a variant that falls back on the oldest line of the set when no line belongs
\* to core_to_assign
PartitionVictim_FallsBackToLRU(row, ways, core_to_assign) ==
    LET own == {i \in 0..(ways - 1) : row[i].coreID = core_to_assign}
    IN  IF own = {} THEN LRUVictim(row, ways)
        ELSE PartitionScan(row, ways, core_to_assign, Min(own), Min(own),
                           row[Min(own)].lastAccessTime)

\* both loops: the first line of core_to_assign, then the oldest one after it;
\* index stays 0 when no line belongs to core_to_assign
PartitionVictim(row, ways, core_to_assign) ==
    LET own == {i \in 0..(ways - 1) : row[i].coreID = core_to_assign}
    IN  IF own = {} THEN 0
        ELSE PartitionScan(row, ways, core_to_assign, Min(own), Min(own),
                           row[Min(own)].lastAccessTime)

\* (0.7 * h) + (0.3 * m) in double arithmetic, converted to unsigned.  For
\* h, m <= 11 the double result falls just below the exact integer at these
\* arguments, and nowhere else.
DoubleRoundsBelow == {<<3, 3>>, <<6, 6>>, <<11, 1>>}

Utility(h, m) ==
    IF <<h, m>> \in DoubleRoundsBelow THEN ((7 * h + 3 * m) \div 10) - 1
    ELSE (7 * h + 3 * m) \div 10

RECURSIVE SumHits(_, _, _, _)
SumHits(set, ways, core, way) ==
    IF way >= ways THEN 0
    ELSE (IF set.row[way].coreID = core THEN set.umon.totalHits[way] ELSE 0)
         + SumHits(set, ways, core, way + 1)

\* a variant that divides by the utility of core 1 alone
DynamicQuota_OverOtherCore(set, ways) ==
    LET u0  == Utility(SumHits(set, ways, 0, 0), set.umon.totalMisses)
        u1  == Utility(SumHits(set, ways, 1, 0), set.umon.totalMisses)
        sum == IF u1 >= 1 THEN u1 ELSE 1
    IN  (u0 * ways) \div sum

\* the quota the DWP branch stores in DWP_CORE0_WAYS
DynamicQuota(set, ways) ==
    LET u0  == Utility(SumHits(set, ways, 0, 0), set.umon.totalMisses)
        u1  == Utility(SumHits(set, ways, 1, 0), set.umon.totalMisses)
        sum == IF u0 + u1 >= 1 THEN u0 + u1 ELSE 1
    IN  (u0 * ways) \div sum

\* cache_find_victim; swp and dwp are the two global quotas, r the value
\* rand() returns if it is called.  Returns the way and the new DWP_CORE0_WAYS.
cache_find_victim(c, set_index, core_id, swp, dwp, r) ==
    LET set   == c.cacheGrid[set_index]
        empty == FirstInvalid(set.row, c.ways)
    IN  IF c.policy = "LRU" THEN
            [index |-> IF empty >= 0 THEN empty ELSE LRUVictim(set.row, c.ways),
             dwp |-> dwp, used_rand |-> FALSE]
        ELSE IF c.policy = "RANDOM" THEN
            [index |-> IF empty >= 0 THEN empty ELSE r % c.ways,
             dwp |-> dwp, used_rand |-> (empty < 0)]
        ELSE IF c.policy = "SWP" THEN
            [index |-> IF empty >= 0 THEN empty
                       ELSE PartitionVictim(set.row, c.ways,
                                CoreToAssign(set.ways_per_core[0], swp, core_id)),
             dwp |-> dwp, used_rand |-> FALSE]
        ELSE IF c.policy = "DWP" THEN
            IF empty >= 0 THEN [index |-> empty, dwp |-> dwp, used_rand |-> FALSE]
            ELSE LET q == DynamicQuota(set, c.ways)
                 IN  [index |-> PartitionVictim(set.row, c.ways,
                                    CoreToAssign(set.ways_per_core[0], q, core_id)),
                      dwp |-> q, used_rand |-> FALSE]
        ELSE [index |-> 0, dwp |-> dwp, used_rand |-> FALSE]

\* variants of the installed line: one without the time stamp, one without the
\* tag, one that is never dirty
InstalledLine_Clean(tag, is_write, core_id, now) ==
    [valid |-> TRUE, dirty |-> FALSE, tag |-> tag, coreID |-> core_id,
     lastAccessTime |-> now]

InstalledLine_StaleTime(tag, is_write, core_id, now) ==
    [valid |-> TRUE, dirty |-> is_write, tag |-> tag, coreID |-> core_id,
     lastAccessTime |-> 0]

InstalledLine_NoTag(tag, is_write, core_id, now) ==
    [valid |-> TRUE, dirty |-> is_write, tag |-> {}, coreID |-> core_id,
     lastAccessTime |-> now]

\* the line cache_install writes
InstalledLine(tag, is_write, core_id, now) ==
    [valid |-> TRUE, dirty |-> is_write, tag |-> tag, coreID |-> core_id,
     lastAccessTime |-> now]

\* a variant of the counter update that forgets the evicted line's owner
CountAfterInstall_NoDecrement(ways_per_core, evicted, core_id) ==
    [ways_per_core EXCEPT ![core_id] = @ + 1]

\* the two updates of ways_per_core in cache_install
CountAfterInstall(ways_per_core, evicted, core_id) ==
    LET dec == IF evicted.valid = TRUE
               THEN [ways_per_core EXCEPT ![evicted.coreID] = @ - 1]
               ELSE ways_per_core
    IN  [dec EXCEPT ![core_id] = @ + 1]

\* a variant of cache_install that counts every valid victim as a dirty evict
cache_install_CountsCleanEvicts(c, line_addr, is_write, core_id, now, swp, dwp, r) ==
    LET set_to_add == Val(BitAnd(line_addr, Word(c.index_mask))) % c.sets
        v          == cache_find_victim(c, set_to_add, core_id, swp, dwp, r)
        i          == v.index
        evicted    == c.cacheGrid[set_to_add].row[i]
    IN  [c |-> [c EXCEPT
                  !.lastEvictedLine = evicted,
                  !.stat_dirty_evicts = IF evicted.valid = TRUE THEN @ + 1 ELSE @,
                  !.cacheGrid[set_to_add].ways_per_core =
                      CountAfterInstall(@, evicted, core_id),
                  !.cacheGrid[set_to_add].row[i] =
                      InstalledLine(TagOf(c, line_addr), is_write, core_id, now)],
         dwp |-> v.dwp, way |-> i, used_rand |-> v.used_rand]

cache_install(c, line_addr, is_write, core_id, now, swp, dwp, r) ==
    LET set_to_add == Val(BitAnd(line_addr, Word(c.index_mask))) % c.sets
        v          == cache_find_victim(c, set_to_add, core_id, swp, dwp, r)
        i          == v.index
        evicted    == c.cacheGrid[set_to_add].row[i]
    IN  [c |-> [c EXCEPT
                  !.lastEvictedLine = evicted,
                  !.stat_dirty_evicts =
                      IF evicted.valid = TRUE /\ evicted.dirty = TRUE THEN @ + 1 ELSE @,
                  !.cacheGrid[set_to_add].ways_per_core =
                      CountAfterInstall(@, evicted, core_id),
                  !.cacheGrid[set_to_add].row[i] =
                      InstalledLine(TagOf(c, line_addr), is_write, core_id, now)],
         dwp |-> v.dwp, way |-> i, used_rand |-> v.used_rand]

---------------------------------------------------------------------------
(* dram.cpp *)

dram_new ==
    [rowbuf            |-> [b \in 0..(NUM_BANKS - 1) |-> [valid |-> FALSE, rowID |-> {}]],
     stat_read_access  |-> 0,
     stat_read_delay   |-> 0,
     stat_write_access |-> 0,
     stat_write_delay  |-> 0,
     bank_bits         |-> Log2(NUM_BANKS)]

\* row_no = (unsigned)(line_addr >> dram->bank_bits)
RowOf(dram, line_addr) == ToUnsigned(ShiftRight(line_addr, dram.bank_bits))

\* a variant with a single bank
BankOf_OneBank(row_no) == 0

\* bank_no = row_no % NUM_BANKS (NUM_BANKS is a power of two)
BankOf(row_no) == Val({b \in row_no : b < Log2(NUM_BANKS)})

\* a variant of the open-page branch that activates the row again on a row hit
OpenPage_HitActivates(buf, row_no) ==
    IF buf.valid = TRUE
    THEN IF buf.rowID = row_no
         THEN [delay |-> DELAY_ACT + DELAY_CAS, buf |-> buf]
         ELSE [delay |-> DELAY_PRE + DELAY_ACT + DELAY_CAS,
               buf |-> [buf EXCEPT !.rowID = row_no]]
    ELSE [delay |-> DELAY_ACT + DELAY_CAS, buf |-> [valid |-> TRUE, rowID |-> row_no]]

\* the open-page branch: the delay added to DELAY_BUS and the new row buffer
OpenPage(buf, row_no) ==
    IF buf.valid = TRUE
    THEN IF buf.rowID = row_no
         THEN [delay |-> DELAY_CAS, buf |-> buf]
         ELSE [delay |-> DELAY_PRE + DELAY_ACT + DELAY_CAS,
               buf |-> [buf EXCEPT !.rowID = row_no]]
    ELSE [delay |-> DELAY_ACT + DELAY_CAS, buf |-> [valid |-> TRUE, rowID |-> row_no]]

\* a variant of the close-page branch that leaves the row open
ClosePage_LeavesOpen(buf, row_no) ==
    [delay |-> DELAY_ACT + DELAY_CAS, buf |-> [valid |-> TRUE, rowID |-> row_no]]

\* the close-page branch
ClosePage(buf, row_no) ==
    [delay |-> DELAY_ACT + DELAY_CAS, buf |-> [valid |-> FALSE, rowID |-> row_no]]

dram_access_mode_CDEF(dram, line_addr, is_dram_write, page_policy) ==
    LET row_no  == RowOf(dram, line_addr)
        bank_no == BankOf(row_no)
        r       == IF page_policy = "OPEN_PAGE"
                   THEN OpenPage(dram.rowbuf[bank_no], row_no)
                   ELSE ClosePage(dram.rowbuf[bank_no], row_no)
    IN  [dram  |-> [dram EXCEPT !.rowbuf[bank_no] = r.buf],
         delay |-> DELAY_BUS + r.delay]

dram_access(dram, line_addr, is_dram_write, mode, page_policy) ==
    LET Counted(r) ==
            [dram  |-> IF is_dram_write
                       THEN [r.dram EXCEPT !.stat_write_access = @ + 1,
                                           !.stat_write_delay = @ + r.delay]
                       ELSE [r.dram EXCEPT !.stat_read_access = @ + 1,
                                           !.stat_read_delay = @ + r.delay],
             delay |-> r.delay]
    IN  Counted(IF mode = "B"
                THEN [dram |-> dram, delay |-> DELAY_SIM_MODE_B]
                ELSE dram_access_mode_CDEF(dram, line_addr, is_dram_write, page_policy))

---------------------------------------------------------------------------
(* memsys.cpp *)

\* memsys_new; G holds the geometry globals (DCACHE_SIZE, DCACHE_ASSOC, ...)
memsys_new(mode, G, repl, l2repl) ==
    LET base == [dcache |-> "NULL", icache |-> "NULL",
                 dcache_coreid |-> "NULL", icache_coreid |-> "NULL",
                 l2cache |-> "NULL", dram |-> "NULL",
                 stat_ifetch_access |-> 0, stat_load_access |-> 0,
                 stat_store_access |-> 0, stat_ifetch_delay |-> 0,
                 stat_load_delay |-> 0, stat_store_delay |-> 0]
        dc == cache_new(G.DCACHE_SIZE, G.DCACHE_ASSOC, CACHE_LINESIZE, repl)
        ic == cache_new(G.ICACHE_SIZE, G.ICACHE_ASSOC, CACHE_LINESIZE, repl)
    IN  IF mode = "A" THEN
            [base EXCEPT !.dcache = dc]
        ELSE IF mode = "B" \/ mode = "C" THEN
            [base EXCEPT !.dcache = dc, !.icache = ic,
                         !.l2cache = cache_new(G.L2CACHE_SIZE, G.L2CACHE_ASSOC,
                                               CACHE_LINESIZE, repl),
                         !.dram = dram_new]
        ELSE
            [base EXCEPT !.l2cache = cache_new(G.L2CACHE_SIZE, G.L2CACHE_ASSOC,
                                               CACHE_LINESIZE, l2repl),
                         !.dram = dram_new,
                         !.dcache_coreid = [i \in 0..(G.NUM_CORES - 1) |-> dc],
                         !.icache_coreid = [i \in 0..(G.NUM_CORES - 1) |-> ic]]

\* the caches by the labels memsys_print_stats gives them
GetCache(s, name) ==
    CASE name = "DCACHE"   -> s.dcache
      [] name = "ICACHE"   -> s.icache
      [] name = "L2CACHE"  -> s.l2cache
      [] name = "DCACHE_0" -> s.dcache_coreid[0]
      [] name = "DCACHE_1" -> s.dcache_coreid[1]
      [] name = "ICACHE_0" -> s.icache_coreid[0]
      [] name = "ICACHE_1" -> s.icache_coreid[1]

PutCache(s, name, c) ==
    CASE name = "DCACHE"   -> [s EXCEPT !.dcache = c]
      [] name = "ICACHE"   -> [s EXCEPT !.icache = c]
      [] name = "L2CACHE"  -> [s EXCEPT !.l2cache = c]
      [] name = "DCACHE_0" -> [s EXCEPT !.dcache_coreid[0] = c]
      [] name = "DCACHE_1" -> [s EXCEPT !.dcache_coreid[1] = c]
      [] name = "ICACHE_0" -> [s EXCEPT !.icache_coreid[0] = c]
      [] name = "ICACHE_1" -> [s EXCEPT !.icache_coreid[1] = c]

CacheLabels(mode) ==
    IF mode = "A" THEN {"DCACHE"}
    ELSE IF mode = "DEF"
         THEN {"ICACHE_0", "DCACHE_0", "ICACHE_1", "DCACHE_1", "L2CACHE"}
         ELSE {"ICACHE", "DCACHE", "L2CACHE"}

(***************************************************************************)
(* The machine the calls of one reference run on: the memory system, the   *)
(* global DWP_CORE0_WAYS, the values rand() will return, and two records   *)
(* kept for the properties: ev, the calls made in order, and origin, the   *)
(* line address each way was installed under.                              *)
(***************************************************************************)

\* cache_access on the cache labelled name
AccessIn(m, name, line_addr, is_write, core_id, now) ==
    LET Result(r) ==
            [m |-> [m EXCEPT !.sys = PutCache(m.sys, name, r.c),
                             !.ev = Append(@, [call |-> "cache_access", cache |-> name,
                                               line_addr |-> line_addr,
                                               is_write |-> is_write,
                                               outcome |-> r.outcome])],
             outcome |-> r.outcome]
    IN  Result(cache_access(GetCache(m.sys, name), line_addr, is_write, core_id, now))

\* cache_install on the cache labelled name
InstallIn(m, name, line_addr, is_write, core_id, now, swp) ==
    LET Result(c, r) ==
            [m EXCEPT !.sys = PutCache(m.sys, name, r.c),
                      !.dwp = r.dwp,
                      !.rnd = IF r.used_rand /\ m.rnd # <<>> THEN Tail(m.rnd) ELSE m.rnd,
                      !.origin[name][SetIndex(c, line_addr)][r.way] = line_addr,
                      !.ev = Append(@, [call |-> "cache_install", cache |-> name,
                                        line_addr |-> line_addr, is_write |-> is_write,
                                        evicted |-> r.c.lastEvictedLine,
                                        evicted_origin |->
                                            m.origin[name][SetIndex(c, line_addr)][r.way]])]
        Install(c) ==
            Result(c, cache_install(c, line_addr, is_write, core_id, now, swp, m.dwp,
                                    IF m.rnd = <<>> THEN 0 ELSE Head(m.rnd) % c.ways))
    IN  Install(GetCache(m.sys, name))

\* dram_access
DramIn(m, line_addr, is_dram_write, mode, page_policy) ==
    LET Result(r) ==
            [m |-> [m EXCEPT !.sys.dram = r.dram,
                             !.ev = Append(@, [call |-> "dram_access",
                                               line_addr |-> line_addr,
                                               is_dram_write |-> is_dram_write,
                                               delay |-> r.delay])],
             delay |-> r.delay]
    IN  Result(dram_access(m.sys.dram, line_addr, is_dram_write, mode, page_policy))

\* unsigned index = line_addr & c->index_mask;
\* unsigned evicted_address = (c->lastEvictedLine.tag << c->index_bits) | index;
EvictedAddress(c, line_addr) ==
    LET index == ToUnsigned(BitAnd(line_addr, Word(c.index_mask)))
    IN  BitOr(ToUnsigned(ShiftLeft(c.lastEvictedLine.tag, c.index_bits)), index)

L2Writeback_AnyValid(evicted) == evicted.valid

\* if (sys->l2cache->lastEvictedLine.valid && sys->l2cache->lastEvictedLine.dirty)
L2Writeback(evicted) == evicted.valid /\ evicted.dirty

L1Writeback_AnyValid(type, evicted) == type # "IFETCH" /\ evicted.valid

\* if (type != ACCESS_TYPE_IFETCH)
\*     if (c->lastEvictedLine.valid && c->lastEvictedLine.dirty)
L1Writeback(type, evicted) == type # "IFETCH" /\ evicted.valid /\ evicted.dirty

\* a variant of the L2 access that reads the missing line from DRAM last, after
\* the install and the write of the victim
memsys_l2_access_ReadsLast(m, line_addr, is_writeback, core_id, X) ==
    LET Called == [m EXCEPT !.ev = Append(@, [call |-> "memsys_l2_access",
                                              line_addr |-> line_addr,
                                              is_writeback |-> is_writeback])]
        AfterRead(d) == [m |-> d.m, delay |-> L2CACHE_HIT_LATENCY + d.delay]
        AfterInstall(m2) ==
            AfterRead(DramIn(IF L2Writeback(m2.sys.l2cache.lastEvictedLine)
                             THEN DramIn(m2, EvictedAddress(m2.sys.l2cache, line_addr),
                                         TRUE, X.mode, X.page_policy).m
                             ELSE m2,
                             line_addr, FALSE, X.mode, X.page_policy))
        AfterAccess(a) ==
            IF a.outcome = "MISS"
            THEN AfterInstall(InstallIn(a.m, "L2CACHE", line_addr, is_writeback, core_id,
                                        X.now, X.swp))
            ELSE [m |-> a.m, delay |-> L2CACHE_HIT_LATENCY]
    IN  AfterAccess(AccessIn(Called, "L2CACHE", line_addr, is_writeback, core_id, X.now))

\* a variant of the L2 access that allocates a missing writeback line without
\* reading it from DRAM
memsys_l2_access_WritebackSkipsRead(m, line_addr, is_writeback, core_id, X) ==
    LET Called == [m EXCEPT !.ev = Append(@, [call |-> "memsys_l2_access",
                                              line_addr |-> line_addr,
                                              is_writeback |-> is_writeback])]
        AfterInstall(m2, delay) ==
            [m |-> IF L2Writeback(m2.sys.l2cache.lastEvictedLine)
                   THEN DramIn(m2, EvictedAddress(m2.sys.l2cache, line_addr), TRUE,
                               X.mode, X.page_policy).m
                   ELSE m2,
             delay |-> L2CACHE_HIT_LATENCY + delay]
        AfterDram(d) ==
            AfterInstall(InstallIn(d.m, "L2CACHE", line_addr, is_writeback, core_id,
                                   X.now, X.swp),
                         d.delay)
        AfterAccess(a) ==
            IF a.outcome = "MISS"
            THEN IF is_writeback
                 THEN AfterDram([m |-> a.m, delay |-> 0])
                 ELSE AfterDram(DramIn(a.m, line_addr, FALSE, X.mode, X.page_policy))
            ELSE [m |-> a.m, delay |-> L2CACHE_HIT_LATENCY]
    IN  AfterAccess(AccessIn(Called, "L2CACHE", line_addr, is_writeback, core_id, X.now))

\* X holds the globals a reference reads: mode, page_policy, swp, now
memsys_l2_access(m, line_addr, is_writeback, core_id, X) ==
    LET Called == [m EXCEPT !.ev = Append(@, [call |-> "memsys_l2_access",
                                              line_addr |-> line_addr,
                                              is_writeback |-> is_writeback])]
        AfterInstall(m2, delay) ==
            [m |-> IF L2Writeback(m2.sys.l2cache.lastEvictedLine)
                   THEN DramIn(m2, EvictedAddress(m2.sys.l2cache, line_addr), TRUE,
                               X.mode, X.page_policy).m
                   ELSE m2,
             delay |-> L2CACHE_HIT_LATENCY + delay]
        AfterDram(d) ==
            AfterInstall(InstallIn(d.m, "L2CACHE", line_addr, is_writeback, core_id,
                                   X.now, X.swp),
                         d.delay)
        AfterAccess(a) ==
            IF a.outcome = "MISS"
            THEN AfterDram(DramIn(a.m, line_addr, FALSE, X.mode, X.page_policy))
            ELSE [m |-> a.m, delay |-> L2CACHE_HIT_LATENCY]
    IN  AfterAccess(AccessIn(Called, "L2CACHE", line_addr, is_writeback, core_id, X.now))

\* a variant of the L1 path that adds the delay of the writeback to the reference
L1Path_ChargesWriteback(m, name, line_addr, type, core_id, X) ==
    LET is_write == (type = "STORE")
        hit_delay == IF type = "IFETCH" THEN ICACHE_HIT_LATENCY ELSE DCACHE_HIT_LATENCY
        Charged(wb, delay) == [m |-> wb.m, delay |-> hit_delay + delay + wb.delay]
        AfterInstall(m2, delay) ==
            IF L1Writeback(type, GetCache(m2.sys, name).lastEvictedLine)
            THEN Charged(memsys_l2_access(m2, EvictedAddress(GetCache(m2.sys, name),
                                                             line_addr),
                                          TRUE, core_id, X),
                         delay)
            ELSE [m |-> m2, delay |-> hit_delay + delay]
        AfterL2(l2) ==
            AfterInstall(InstallIn(l2.m, name, line_addr, is_write, core_id, X.now, X.swp),
                         l2.delay)
        AfterAccess(a) ==
            IF a.outcome = "MISS"
            THEN AfterL2(memsys_l2_access(a.m, line_addr, FALSE, core_id, X))
            ELSE [m |-> a.m, delay |-> hit_delay]
    IN  AfterAccess(AccessIn(m, name, line_addr, is_write, core_id, X.now))

\* a variant of the L1 path that installs the line on a hit as well
L1Path_InstallsOnHit(m, name, line_addr, type, core_id, X) ==
    LET is_write == (type = "STORE")
        hit_delay == IF type = "IFETCH" THEN ICACHE_HIT_LATENCY ELSE DCACHE_HIT_LATENCY
        AfterInstall(m2, delay) ==
            [m |-> IF L1Writeback(type, GetCache(m2.sys, name).lastEvictedLine)
                   THEN memsys_l2_access(m2, EvictedAddress(GetCache(m2.sys, name),
                                                            line_addr),
                                         TRUE, core_id, X).m
                   ELSE m2,
             delay |-> hit_delay + delay]
        AfterL2(l2) ==
            AfterInstall(InstallIn(l2.m, name, line_addr, is_write, core_id, X.now, X.swp),
                         l2.delay)
        AfterAccess(a) ==
            IF a.outcome = "MISS"
            THEN AfterL2(memsys_l2_access(a.m, line_addr, FALSE, core_id, X))
            ELSE AfterInstall(InstallIn(a.m, name, line_addr, is_write, core_id, X.now,
                                        X.swp), 0)
    IN  AfterAccess(AccessIn(m, name, line_addr, is_write, core_id, X.now))

\* the part modes B/C and D/E/F share: the L1 access, the L2 access and the
\* L1 install on a miss, and the writeback of a dirty L1 victim
L1Path(m, name, line_addr, type, core_id, X) ==
    LET is_write == (type = "STORE")
        hit_delay == IF type = "IFETCH" THEN ICACHE_HIT_LATENCY ELSE DCACHE_HIT_LATENCY
        AfterInstall(m2, delay) ==
            [m |-> IF L1Writeback(type, GetCache(m2.sys, name).lastEvictedLine)
                   THEN memsys_l2_access(m2, EvictedAddress(GetCache(m2.sys, name),
                                                            line_addr),
                                         TRUE, core_id, X).m
                   ELSE m2,
             delay |-> hit_delay + delay]
        AfterL2(l2) ==
            AfterInstall(InstallIn(l2.m, name, line_addr, is_write, core_id, X.now, X.swp),
                         l2.delay)
        AfterAccess(a) ==
            IF a.outcome = "MISS"
            THEN AfterL2(memsys_l2_access(a.m, line_addr, FALSE, core_id, X))
            ELSE [m |-> a.m, delay |-> hit_delay]
    IN  AfterAccess(AccessIn(m, name, line_addr, is_write, core_id, X.now))

\* a variant of mode A that sends instruction fetches to the data cache as reads
memsys_access_modeA_FetchesData(m, line_addr, type, core_id, X) ==
    LET AfterAccess(a) ==
            [m |-> IF a.outcome = "MISS"
                   THEN InstallIn(a.m, "DCACHE", line_addr, type = "STORE", core_id,
                                  X.now, X.swp)
                   ELSE a.m,
             delay |-> 0]
    IN  AfterAccess(AccessIn(m, "DCACHE", line_addr, type = "STORE", core_id, X.now))

memsys_access_modeA(m, line_addr, type, core_id, X) ==
    LET AfterAccess(a) ==
            [m |-> IF a.outcome = "MISS"
                   THEN InstallIn(a.m, "DCACHE", line_addr, type = "STORE", core_id,
                                  X.now, X.swp)
                   ELSE a.m,
             delay |-> 0]
    IN  IF type = "LOAD" \/ type = "STORE"
        THEN AfterAccess(AccessIn(m, "DCACHE", line_addr, type = "STORE", core_id, X.now))
        ELSE [m |-> m, delay |-> 0]

\* a variant of modes B/C that sends stores to the instruction cache
memsys_access_modeBC_StoresToIcache(m, line_addr, type, core_id, X) ==
    L1Path(m, IF type = "LOAD" THEN "DCACHE" ELSE "ICACHE", line_addr, type,
           core_id, X)

memsys_access_modeBC(m, line_addr, type, core_id, X) ==
    L1Path(m, IF type = "IFETCH" THEN "ICACHE" ELSE "DCACHE", line_addr, type,
           core_id, X)

\* a variant of the translation that gives every core the same frames
memsys_convert_vpn_to_pfn_IgnoreCore(vpn, core_id) ==
    Add64(BitAnd(vpn, 0..(VPN_TAIL_BITS - 1)),
          ShiftLeft(ShiftRight(vpn, VPN_TAIL_BITS), PFN_CORE_SHIFT))

\* pfn = (vpn & 0x000fffff) + (core_id << 21) + ((vpn >> 20) << 21)
memsys_convert_vpn_to_pfn(vpn, core_id) ==
    LET tail == BitAnd(vpn, 0..(VPN_TAIL_BITS - 1))
        head == ShiftRight(vpn, VPN_TAIL_BITS)
    IN  Add64(Add64(tail, ToUnsigned(ShiftLeft(Word(core_id), PFN_CORE_SHIFT))),
              ShiftLeft(head, PFN_CORE_SHIFT))

\* a variant of the translation that loses the offset within the page
PhysicalLine_DropsOffset(v_line_addr, core_id) ==
    ShiftLeft(memsys_convert_vpn_to_pfn(
                  ShiftRight(v_line_addr, Log2(PAGE_SIZE) - Log2(CACHE_LINESIZE)),
                  core_id),
              Log2(PAGE_SIZE) - Log2(CACHE_LINESIZE))

\* the translation at the head of memsys_access_modeDEF
PhysicalLine(v_line_addr, core_id) ==
    LET offset_bits == Log2(PAGE_SIZE) - Log2(CACHE_LINESIZE)
        offset_mask == Word(2^offset_bits - 1)
        vfn         == ShiftRight(v_line_addr, offset_bits)
        pfn         == memsys_convert_vpn_to_pfn(vfn, core_id)
    IN  BitOr(ShiftLeft(pfn, offset_bits), BitAnd(v_line_addr, offset_mask))

memsys_access_modeDEF(m, v_line_addr, type, core_id, X) ==
    L1Path(m,
           IF type = "IFETCH"
           THEN (IF core_id = 0 THEN "ICACHE_0" ELSE "ICACHE_1")
           ELSE (IF core_id = 0 THEN "DCACHE_0" ELSE "DCACHE_1"),
           PhysicalLine(v_line_addr, core_id), type, core_id, X)

\* the per-type statistics at the end of memsys_access
CountReference(s, type, delay) ==
    IF type = "IFETCH" THEN [s EXCEPT !.stat_ifetch_access = @ + 1,
                                      !.stat_ifetch_delay = @ + delay]
    ELSE IF type = "LOAD" THEN [s EXCEPT !.stat_load_access = @ + 1,
                                         !.stat_load_delay = @ + delay]
    ELSE [s EXCEPT !.stat_store_access = @ + 1, !.stat_store_delay = @ + delay]

memsys_access(m, addr, type, core_id, X) ==
    LET line_addr == ShiftRight(addr, Log2(CACHE_LINESIZE))
        Counted(r) == [m |-> [r.m EXCEPT !.sys = CountReference(r.m.sys, type, r.delay)],
                       delay |-> r.delay]
    IN  Counted(IF X.mode = "A"
                THEN memsys_access_modeA(m, line_addr, type, core_id, X)
                ELSE IF X.mode = "B" \/ X.mode = "C"
                     THEN memsys_access_modeBC(m, line_addr, type, core_id, X)
                     ELSE memsys_access_modeDEF(m, line_addr, type, core_id, X))

---------------------------------------------------------------------------
(* The cache on its own: any sequence of cache_access and cache_install    *)
(* calls on one cache (the data cache of mode A), under each policy.       *)

Policies == {"LRU", "RANDOM", "SWP", "DWP"}

Cores == {0, 1}

\* a 2-set, 2-way data cache
HarnessGeometry == [DCACHE_SIZE |-> 4 * CACHE_LINESIZE, DCACHE_ASSOC |-> 2,
                    ICACHE_SIZE |-> 4 * CACHE_LINESIZE, ICACHE_ASSOC |-> 2,
                    L2CACHE_SIZE |-> 4 * CACHE_LINESIZE, L2CACHE_ASSOC |-> 2,
                    NUM_CORES |-> 1]

\* line addresses 1 and 2^33 + 1: both of set 1, with tags 0 and 2^32
HarnessAddrs == {{0}, {0, 33}}

NoCall == [op |-> "none"]

\* the pairs of `res` whose set differs from that of line_addr
OtherSets(c, res, line_addr) ==
    {p \in res : SetIndex(c, p[1]) # SetIndex(c, line_addr)}

InitCache ==
    /\ SIM_MODE = "A"
    /\ REPL_POLICY \in Policies
    /\ L2CACHE_REPL = "LRU"
    /\ DRAM_PAGE_POLICY = "OPEN_PAGE"
    /\ SWP_CORE0_WAYS = 1
    /\ DWP_CORE0_WAYS = 0
    /\ current_cycle = 0
    /\ sys = memsys_new("A", HarnessGeometry, REPL_POLICY, L2CACHE_REPL)
    /\ last = NoCall
    /\ resident = {}
    /\ origin = <<>>
    /\ hist = <<>>
    /\ steps = 0

CacheAccess ==
    /\ steps < MaxCalls
    /\ \E line_addr \in HarnessAddrs, is_write \in BOOLEAN, core_id \in Cores :
         LET r == cache_access(sys.dcache, line_addr, is_write, core_id, current_cycle)
         IN  /\ sys' = [sys EXCEPT !.dcache = r.c]
             /\ last' = [op |-> "cache_access", line_addr |-> line_addr,
                         is_write |-> is_write, core_id |-> core_id,
                         outcome |-> r.outcome, way |-> r.way,
                         before |-> sys.dcache, cycle |-> current_cycle,
                         was_resident |-> (<<line_addr, core_id>> \in resident)]
             /\ resident' = IF r.outcome = "HIT"
                            THEN resident \cup {<<line_addr, core_id>>}
                            ELSE resident
    /\ steps' = steps + 1
    /\ UNCHANGED <<config, DWP_CORE0_WAYS, current_cycle, origin, hist>>

CacheInstall ==
    /\ steps < MaxCalls
    /\ \E line_addr \in HarnessAddrs, is_write \in BOOLEAN, core_id \in Cores,
          rnd \in 0..(sys.dcache.ways - 1) :
         LET r == cache_install(sys.dcache, line_addr, is_write, core_id,
                                current_cycle, SWP_CORE0_WAYS, DWP_CORE0_WAYS, rnd)
             after_miss == /\ last.op = "cache_access"
                           /\ last.outcome = "MISS"
                           /\ last.line_addr = line_addr
                           /\ last.is_write = is_write
                           /\ last.core_id = core_id
         IN  /\ (rnd = 0 \/ r.used_rand)
             /\ sys' = [sys EXCEPT !.dcache = r.c]
             /\ DWP_CORE0_WAYS' = r.dwp
             /\ last' = [op |-> "cache_install", line_addr |-> line_addr,
                         is_write |-> is_write, core_id |-> core_id,
                         outcome |-> "NONE", way |-> r.way,
                         before |-> sys.dcache, cycle |-> current_cycle,
                         was_resident |-> (<<line_addr, core_id>> \in resident),
                         after_miss |-> after_miss]
             /\ resident' = OtherSets(sys.dcache, resident, line_addr)
                              \cup (IF after_miss THEN {<<line_addr, core_id>>} ELSE {})
    /\ steps' = steps + 1
    /\ UNCHANGED <<config, current_cycle, origin, hist>>

AdvanceCycle ==
    /\ current_cycle < MaxCycle
    /\ current_cycle' = current_cycle + 1
    /\ UNCHANGED <<config, DWP_CORE0_WAYS, sys, last, resident, origin, hist, steps>>

NextCache == CacheAccess \/ CacheInstall \/ AdvanceCycle

SpecCache == InitCache /\ [][NextCache]_vars

---------------------------------------------------------------------------
(* Properties of the cache on its own (SpecCache) *)

Ways(c) == 0..(c.ways - 1)

\* the ways of set s that are valid and owned by core k
OwnedWays(c, s, k) ==
    {w \in Ways(c) : c.cacheGrid[s].row[w].valid /\ c.cacheGrid[s].row[w].coreID = k}

ValidWays(c, s) == {w \in Ways(c) : c.cacheGrid[s].row[w].valid}

FullSet(c, s) == ValidWays(c, s) = Ways(c)

\* the ways of set s holding (tag, core) as a valid line
Holding(c, s, tag, core) ==
    {w \in Ways(c) : /\ c.cacheGrid[s].row[w].valid
                     /\ c.cacheGrid[s].row[w].tag = tag
                     /\ c.cacheGrid[s].row[w].coreID = core}

WaysPerCoreExact(c) ==
    \A s \in 0..(c.sets - 1) :
        /\ \A k \in Cores :
             c.cacheGrid[s].ways_per_core[k] = Cardinality(OwnedWays(c, s, k))
        /\ c.cacheGrid[s].ways_per_core[0] + c.cacheGrid[s].ways_per_core[1]
             = Cardinality(ValidWays(c, s))
        /\ c.cacheGrid[s].ways_per_core[0] + c.cacheGrid[s].ways_per_core[1] <= c.ways

\* C1: in every state reached by cache_access / cache_install calls, for every
\* set and core c, ways_per_core[c] is the number of valid ways owned by c;
\* the two counters add up to the number of valid ways and never exceed W.
C1_WaysPerCore == WaysPerCoreExact(sys.dcache)

\* an install that evicted a valid line of the other core
C1_Witness ==
    /\ last.op = "cache_install"
    /\ sys.dcache.lastEvictedLine.valid
    /\ sys.dcache.lastEvictedLine.coreID # last.core_id

LastSet == SetIndex(last.before, last.line_addr)

LastTag == TagOf(last.before, last.line_addr)

\* C5: cache_access reports HIT only on a way owned by the requesting core; a
\* valid line with the requested tag that belongs to the other core is a MISS.
C5_HitOnlyOwnCore ==
    last.op = "cache_access" =>
        /\ last.outcome = "HIT" =>
             last.before.cacheGrid[LastSet].row[last.way].coreID = last.core_id
        /\ Holding(last.before, LastSet, LastTag, last.core_id) = {} =>
             last.outcome = "MISS"

\* a miss on a line that the other core holds under the same tag
C5_Witness ==
    /\ last.op = "cache_access"
    /\ last.outcome = "MISS"
    /\ Holding(last.before, LastSet, LastTag, 1 - last.core_id) # {}

\* C6: a HIT is reported for a valid way of set A & index_mask whose tag
\* rebuilds the requested address: (tag << index_bits) | set_index = A.
C6_HitIsExactAddress ==
    (last.op = "cache_access" /\ last.outcome = "HIT") =>
        LET line == last.before.cacheGrid[LastSet].row[last.way]
        IN  /\ last.way \in Ways(last.before)
            /\ line.valid
            /\ BitOr(ShiftLeft(line.tag, last.before.index_bits), Word(LastSet))
                 = last.line_addr

\* a hit on the address whose tag lies above 32 bits, with the other tag cached too
C6_Witness ==
    /\ last.op = "cache_access"
    /\ last.outcome = "HIT"
    /\ last.line_addr = {0, 33}
    /\ Cardinality(ValidWays(last.before, LastSet)) = 2

\* the ways that look like the line just installed
FreshWays(c, s, tag, core, now) ==
    {w \in Ways(c) : /\ c.cacheGrid[s].row[w].valid
                     /\ c.cacheGrid[s].row[w].tag = tag
                     /\ c.cacheGrid[s].row[w].coreID = core
                     /\ c.cacheGrid[s].row[w].lastAccessTime = now}

\* C7 as stated: after cache_install(A, ., core) from any cache state, exactly
\* one way of set A & index_mask is valid with A's tag, the core and the
\* current cycle.
C7_ExactlyOneFromAnyState ==
    last.op = "cache_install" =>
        Cardinality(FreshWays(sys.dcache, LastSet, LastTag, last.core_id,
                              last.cycle)) = 1

\* C7 amended: the same, for an install of a line that no valid way of the set
\* held for that core before the call (the state cache_access leaves on a MISS).
C7_ExactlyOneAfterMiss ==
    (last.op = "cache_install"
       /\ Holding(last.before, LastSet, LastTag, last.core_id) = {}) =>
        /\ Cardinality(FreshWays(sys.dcache, LastSet, LastTag, last.core_id,
                                 last.cycle)) = 1
        /\ Cardinality(Holding(sys.dcache, LastSet, LastTag, last.core_id)) = 1

\* an install of a line the set did not hold, into a full set, at a cycle later
\* than the fill
C7_Witness ==
    /\ last.op = "cache_install"
    /\ Holding(last.before, LastSet, LastTag, last.core_id) = {}
    /\ FullSet(last.before, LastSet)
    /\ last.cycle > 0

\* C8: an access to A by core c reports HIT when an earlier access to A by c
\* hit, or missed and was followed by the install of A for c, and no other
\* install went into that set since.
C8_SecondAccessHits ==
    (last.op = "cache_access" /\ last.was_resident) => last.outcome = "HIT"

\* the second access, after a miss and the install of the line
C8_Witness ==
    /\ last.op = "cache_access"
    /\ last.was_resident
    /\ last.outcome = "HIT"
    /\ last.before.stat_read_miss + last.before.stat_write_miss > 0

\* way v has the least time stamp of the row, and is the lowest such way
OldestLowest(row, among, v) ==
    /\ v \in among
    /\ \A w \in among : row[v].lastAccessTime <= row[w].lastAccessTime
    /\ \A w \in among : w < v => row[w].lastAccessTime > row[v].lastAccessTime

\* C9: under LRU, the victim of a full set has a lastAccessTime no later than
\* any other way's, and is the lowest way among those tied for the minimum.
C9_LRUVictim ==
    /\ (last.op = "cache_install" /\ last.before.policy = "LRU"
          /\ FullSet(last.before, LastSet)) =>
         OldestLowest(last.before.cacheGrid[LastSet].row, Ways(last.before), last.way)
    /\ sys.dcache.policy = "LRU" =>
         \A s \in 0..(sys.dcache.sets - 1) :
            FullSet(sys.dcache, s) =>
               \A k \in Cores :
                  OldestLowest(sys.dcache.cacheGrid[s].row, Ways(sys.dcache),
                      cache_find_victim(sys.dcache, s, k, SWP_CORE0_WAYS,
                                        DWP_CORE0_WAYS, 0).index)

\* an LRU install into a full set whose two ways carry the same time stamp
C9_Witness ==
    /\ last.op = "cache_install"
    /\ last.before.policy = "LRU"
    /\ FullSet(last.before, LastSet)
    /\ last.before.cacheGrid[LastSet].row[0].lastAccessTime
         = last.before.cacheGrid[LastSet].row[1].lastAccessTime
    /\ sys.dcache.lastEvictedLine.valid

\* C10: under SWP with quota Q, an install into a full set evicts a line of
\* the requesting core when ways_per_core[0] >= Q and both cores hold lines,
\* and a line of core 1 when ways_per_core[0] < Q and core 1 holds a line; the
\* evicted line is the oldest of that core's lines, the lowest way on ties.
C10_SWPVictim ==
    (last.op = "cache_install" /\ last.before.policy = "SWP"
       /\ FullSet(last.before, LastSet)) =>
        LET set     == last.before.cacheGrid[LastSet]
            evicted == sys.dcache.lastEvictedLine
            own0    == OwnedWays(last.before, LastSet, 0)
            own1    == OwnedWays(last.before, LastSet, 1)
        IN  /\ evicted = set.row[last.way]
            /\ (set.ways_per_core[0] >= SWP_CORE0_WAYS /\ own0 # {} /\ own1 # {}) =>
                 /\ evicted.coreID = last.core_id
                 /\ OldestLowest(set.row, OwnedWays(last.before, LastSet, last.core_id),
                                 last.way)
            /\ (set.ways_per_core[0] < SWP_CORE0_WAYS /\ own1 # {}) =>
                 /\ evicted.coreID = 1
                 /\ OldestLowest(set.row, own1, last.way)

\* core 0 at its quota in a full set shared by both cores, and core 0 installs
C10_Witness ==
    /\ last.op = "cache_install"
    /\ last.before.policy = "SWP"
    /\ FullSet(last.before, LastSet)
    /\ OwnedWays(last.before, LastSet, 0) # {}
    /\ OwnedWays(last.before, LastSet, 1) # {}
    /\ last.before.cacheGrid[LastSet].ways_per_core[0] >= SWP_CORE0_WAYS
    /\ last.core_id = 0
    /\ sys.dcache.lastEvictedLine.coreID = 0

---------------------------------------------------------------------------
(* The memory system: any sequence of memsys_access calls, in each mode.   *)

AccessTypes == {"IFETCH", "LOAD", "STORE"}

\* the configurations the references run under
Configs ==
    {[mode |-> "A",   repl |-> "LRU", l2repl |-> "LRU", page |-> "OPEN_PAGE"],
     [mode |-> "B",   repl |-> "LRU", l2repl |-> "LRU", page |-> "OPEN_PAGE"],
     [mode |-> "C",   repl |-> "LRU", l2repl |-> "LRU", page |-> "OPEN_PAGE"],
     [mode |-> "C",   repl |-> "LRU", l2repl |-> "LRU", page |-> "CLOSE_PAGE"],
     [mode |-> "DEF", repl |-> "LRU", l2repl |-> "LRU", page |-> "OPEN_PAGE"],
     [mode |-> "DEF", repl |-> "LRU", l2repl |-> "SWP", page |-> "OPEN_PAGE"]}

\* direct-mapped L1 caches of two sets, a 2-set, 2-way L2
MemsysGeometry(mode) ==
    [DCACHE_SIZE  |-> 2 * CACHE_LINESIZE, DCACHE_ASSOC  |-> 1,
     ICACHE_SIZE  |-> 2 * CACHE_LINESIZE, ICACHE_ASSOC  |-> 1,
     L2CACHE_SIZE |-> 4 * CACHE_LINESIZE, L2CACHE_ASSOC |-> 2,
     NUM_CORES    |-> IF mode = "DEF" THEN 2 ELSE 1]

\* byte addresses 65, 2^39 + 64 and 192: lines 1, 2^33 + 1 and 3, all of set 1
MemsysAddrs(mode) ==
    IF mode = "DEF" THEN {{0, 6}, {6, 39}} ELSE {{0, 6}, {6, 39}, {6, 7}}

MemsysCores(mode) == IF mode = "DEF" THEN {0, 1} ELSE {0}

\* what rand() returns to the cache_install calls of one reference (at most
\* the L2 fill, the L1 fill and the fill of the L2 by the writeback)
RandDraws(mode) ==
    IF REPL_POLICY = "RANDOM" \/ (mode = "DEF" /\ L2CACHE_REPL = "RANDOM")
    THEN [{"L2 fill", "L1 fill", "writeback fill"} -> {0, 1}]
    ELSE {[k \in {"L2 fill", "L1 fill", "writeback fill"} |-> 0]}

DrawSeq(f) == <<f["L2 fill"], f["L1 fill"], f["writeback fill"]>>

NoOrigin == "none"

\* the history variables of an empty memory system
NoOrigins ==
    [name \in CacheLabels(SIM_MODE) |->
       [s \in 0..(GetCache(sys, name).sets - 1) |->
          [w \in 0..(GetCache(sys, name).ways - 1) |-> NoOrigin]]]

\* the state memsys_new leaves under configuration k, geometry G and quota swp
Created(k, G, swp) ==
    /\ SIM_MODE = k.mode
    /\ REPL_POLICY = k.repl
    /\ L2CACHE_REPL = k.l2repl
    /\ DRAM_PAGE_POLICY = k.page
    /\ SWP_CORE0_WAYS = swp
    /\ DWP_CORE0_WAYS = 0
    /\ current_cycle = 0
    /\ sys = memsys_new(SIM_MODE, G, REPL_POLICY, L2CACHE_REPL)
    /\ last = NoCall
    /\ resident = {}
    /\ origin = NoOrigins
    /\ hist = <<>>
    /\ steps = 0

Init == \E k \in Configs : Created(k, MemsysGeometry(k.mode), 1)

\* one call of memsys_access, with its arguments drawn from the given sets
Reference(addrs, types, cores, bound) ==
    /\ steps < bound
    /\ \E addr \in addrs, type \in types, core_id \in cores,
          draws \in RandDraws(SIM_MODE) :
         \E r \in {memsys_access([sys |-> sys, dwp |-> DWP_CORE0_WAYS,
                                  rnd |-> DrawSeq(draws), ev |-> <<>>,
                                  origin |-> origin],
                                 addr, type, core_id,
                                 [mode |-> SIM_MODE, page_policy |-> DRAM_PAGE_POLICY,
                                  swp |-> SWP_CORE0_WAYS, now |-> current_cycle])} :
             /\ \A i \in DOMAIN r.m.rnd : r.m.rnd[i] = 0
             /\ sys' = r.m.sys
             /\ DWP_CORE0_WAYS' = r.m.dwp
             /\ origin' = r.m.origin
             /\ last' = [op |-> "memsys_access", addr |-> addr, type |-> type,
                         core_id |-> core_id, delay |-> r.delay, ev |-> r.m.ev,
                         cycle |-> current_cycle]
             /\ hist' = Append(hist, last')
    /\ steps' = steps + 1
    /\ UNCHANGED <<config, current_cycle, resident>>

MemsysAccess ==
    Reference(MemsysAddrs(SIM_MODE), AccessTypes, MemsysCores(SIM_MODE), MaxRefs)

Next == MemsysAccess \/ AdvanceCycle

Spec == Init /\ [][Next]_vars

---------------------------------------------------------------------------
(* Properties of the memory system (Spec) *)

\* positions of the calls of the last reference
Events == IF last.op = "memsys_access" THEN DOMAIN last.ev ELSE {}

IsL2Call(i)    == last.ev[i].call = "memsys_l2_access"
IsWriteback(i) == IsL2Call(i) /\ last.ev[i].is_writeback
IsDramWrite(i) == last.ev[i].call = "dram_access" /\ last.ev[i].is_dram_write
IsL1Install(i) == last.ev[i].call = "cache_install" /\ last.ev[i].cache # "L2CACHE"
IsL2Install(i) == last.ev[i].call = "cache_install" /\ last.ev[i].cache = "L2CACHE"
DirtyVictim(i) == last.ev[i].evicted.valid /\ last.ev[i].evicted.dirty

\* the calls made inside the memsys_l2_access call that starts at position i
CallBody(i) == {j \in Events : j > i /\ \A k \in (i + 1)..j : ~IsL2Call(k)}

Hierarchy == SIM_MODE \in {"B", "C", "DEF"}

\* C2: in modes B/C and D/E/F a reference issues exactly one writeback-tagged
\* memsys_l2_access when it is a LOAD or STORE whose L1 install evicted a valid
\* dirty line, and none in every other case.
C2_WritebackIffDirtyL1Victim ==
    (Hierarchy /\ last.op = "memsys_access") =>
        Cardinality({i \in Events : IsWriteback(i)})
          = (IF last.type \in {"LOAD", "STORE"}
                /\ \E i \in Events : IsL1Install(i) /\ DirtyVictim(i)
             THEN 1 ELSE 0)

\* a STORE or LOAD that evicted a dirty L1 line and wrote it back
C2_Witness ==
    /\ Hierarchy /\ last.op = "memsys_access"
    /\ \E i \in Events : IsL1Install(i) /\ DirtyVictim(i)
    /\ \E i \in Events : IsWriteback(i)

\* C3: every memsys_l2_access call, demand or writeback, issues exactly one DRAM
\* write when its L2 install evicted a valid dirty line and none otherwise, so
\* that dram.stat_write_access equals l2cache.stat_dirty_evicts in every state.
C3_DramWriteIffDirtyL2Victim ==
    Hierarchy =>
        /\ sys.dram.stat_write_access = sys.l2cache.stat_dirty_evicts
        /\ \A i \in Events : IsL2Call(i) =>
             Cardinality({j \in CallBody(i) : IsDramWrite(j)})
               = (IF \E j \in CallBody(i) : IsL2Install(j) /\ DirtyVictim(j)
                  THEN 1 ELSE 0)
        /\ \A j \in Events : IsDramWrite(j) => \E i \in Events : IsL2Call(i) /\ j \in CallBody(i)

\* an L2 fill that evicted a dirty line and wrote it to DRAM
C3_Witness ==
    /\ Hierarchy
    /\ sys.dram.stat_write_access > 0
    /\ \E i \in Events : IsL2Install(i) /\ DirtyVictim(i)
    /\ \E i \in Events : IsDramWrite(i)

\* the install whose victim the call at position i writes back
VictimInstall(i) ==
    IF IsDramWrite(i)
    THEN CHOOSE j \in Events : j < i /\ IsL2Install(j)
                               /\ \A k \in (j + 1)..(i - 1) : ~IsL2Install(k)
    ELSE CHOOSE j \in Events : j < i /\ IsL1Install(j)
                               /\ \A k \in (j + 1)..(i - 1) : ~IsL1Install(k)

\* C4: the line address passed to the L2 writeback access and to the DRAM write
\* is the line address the evicted line was installed under.
C4_WritebackAddressIsInstalledAddress ==
    \A i \in Events : (IsWriteback(i) \/ IsDramWrite(i)) =>
        last.ev[i].line_addr = last.ev[VictimInstall(i)].evicted_origin

\* C4 (a line below 2^32): the address is rebuilt without loss
C4_LowAddressRebuilt ==
    \A i \in Events :
        ((IsWriteback(i) \/ IsDramWrite(i))
           /\ \A b \in last.ev[VictimInstall(i)].evicted_origin : b < UNSIGNED_BITS)
        => last.ev[i].line_addr = last.ev[VictimInstall(i)].evicted_origin

---------------------------------------------------------------------------
(* Streaming: mode D/E/F with SWP in an 8-way L2 and a quota of two ways,  *)
(* core 0 alone referencing ever new lines of one L2 set.                  *)

\* single-line L1 caches, a 2-set, 8-way L2
StreamGeometry ==
    [DCACHE_SIZE  |-> CACHE_LINESIZE, DCACHE_ASSOC  |-> 1,
     ICACHE_SIZE  |-> CACHE_LINESIZE, ICACHE_ASSOC  |-> 1,
     L2CACHE_SIZE |-> 16 * CACHE_LINESIZE, L2CACHE_ASSOC |-> 8,
     NUM_CORES    |-> 2]

\* the byte address of the i-th line of the stream: lines 1, 3, 5, ... of set 1
StreamAddr(i) == ShiftLeft(Word(2 * i + 1), Log2(CACHE_LINESIZE))

InitStream ==
    Created([mode |-> "DEF", repl |-> "LRU", l2repl |-> "SWP", page |-> "OPEN_PAGE"],
            StreamGeometry, 2)

StreamAccess == Reference({StreamAddr(steps)}, {"LOAD", "STORE"}, {0}, MaxStream)

NextStream == StreamAccess \/ AdvanceCycle

SpecStream == InitStream /\ [][NextStream]_vars

\* the L2 lookup of reference h missed
L2Missed(h) ==
    \E i \in DOMAIN h.ev : /\ h.ev[i].call = "cache_access"
                           /\ h.ev[i].cache = "L2CACHE"
                           /\ h.ev[i].outcome = "MISS"

\* C11: in mode D/E/F with SWP in an 8-way L2 and SWP_CORE0_WAYS = 2, when only
\* core 0 has issued references and all missed into one L2 set, then once that
\* set is full ways_per_core[0] <= 2 and ways_per_core[0] + ways_per_core[1] <= 8.
C11_StreamingCoreWithinQuota ==
    (/\ SIM_MODE = "DEF" /\ sys.l2cache.policy = "SWP" /\ sys.l2cache.ways = 8
     /\ SWP_CORE0_WAYS = 2
     /\ \A n \in DOMAIN hist : hist[n].core_id = 0 /\ L2Missed(hist[n])
     /\ FullSet(sys.l2cache, 1))
    => /\ sys.l2cache.cacheGrid[1].ways_per_core[0] <= 2
       /\ sys.l2cache.cacheGrid[1].ways_per_core[0]
            + sys.l2cache.cacheGrid[1].ways_per_core[1] <= 8

---------------------------------------------------------------------------
(* Mode A with a data cache of one line (size 64, line 64).                *)

TinyGeometry ==
    [DCACHE_SIZE  |-> CACHE_LINESIZE, DCACHE_ASSOC  |-> 1,
     ICACHE_SIZE  |-> CACHE_LINESIZE, ICACHE_ASSOC  |-> 1,
     L2CACHE_SIZE |-> CACHE_LINESIZE, L2CACHE_ASSOC |-> 1,
     NUM_CORES    |-> 1]

\* byte addresses 0x0 and 0x40
TinyAddrs == {{}, {6}}

InitTiny ==
    Created([mode |-> "A", repl |-> "LRU", l2repl |-> "LRU", page |-> "OPEN_PAGE"],
            TinyGeometry, 1)

TinyAccess == Reference(TinyAddrs, AccessTypes, {0}, MaxTiny)

NextTiny == TinyAccess \/ AdvanceCycle

SpecTiny == InitTiny /\ [][NextTiny]_vars

\* the references made so far are exactly those of trace, in order
Ran(trace) ==
    /\ Len(hist) = Len(trace)
    /\ \A n \in DOMAIN trace : /\ hist[n].type = trace[n].type
                               /\ hist[n].addr = trace[n].addr
                               /\ hist[n].core_id = trace[n].core_id

\* LOAD 0x0, LOAD 0x0, STORE 0x40, LOAD 0x0 from core 0
TinyTrace ==
    <<[type |-> "LOAD",  addr |-> {},  core_id |-> 0],
      [type |-> "LOAD",  addr |-> {},  core_id |-> 0],
      [type |-> "STORE", addr |-> {6}, core_id |-> 0],
      [type |-> "LOAD",  addr |-> {},  core_id |-> 0]>>

TinyAccessCounters ==
    /\ sys.dcache.stat_read_access = 3
    /\ sys.dcache.stat_write_access = 1
    /\ sys.dcache.stat_read_miss = 2
    /\ sys.dcache.stat_write_miss = 1

\* C12 (as stated): in mode A with a 1-set, 1-way data cache, LOAD 0x0, LOAD 0x0,
\* STORE 0x40, LOAD 0x0 ends with read accesses 3, write accesses 1, read misses
\* 2, write misses 1 and dirty evictions 0.
C12_CountersNoDirtyEvict ==
    (SIM_MODE = "A" /\ Ran(TinyTrace)) =>
        (TinyAccessCounters /\ sys.dcache.stat_dirty_evicts = 0)

\* C12 (amended): the same sequence ends with read accesses 3, write accesses 1,
\* read misses 2, write misses 1 and one dirty eviction, that of the stored line
\* by the last load.
C12_CountersOneDirtyEvict ==
    (SIM_MODE = "A" /\ Ran(TinyTrace)) =>
        (TinyAccessCounters /\ sys.dcache.stat_dirty_evicts = 1)

\* the four references have been made
C12_Witness ==
    /\ SIM_MODE = "A" /\ Ran(TinyTrace)
    /\ sys.dcache.sets = 1 /\ sys.dcache.ways = 1
    /\ sys.dcache.lastEvictedLine.dirty

---------------------------------------------------------------------------
(* The DRAM on its own: any sequence of dram_access calls in modes C and   *)
(* D/E/F, under each page policy.                                          *)

DramConfigs ==
    {[mode |-> "C", repl |-> "LRU", l2repl |-> "LRU", page |-> "OPEN_PAGE"],
     [mode |-> "C", repl |-> "LRU", l2repl |-> "LRU", page |-> "CLOSE_PAGE"],
     [mode |-> "DEF", repl |-> "LRU", l2repl |-> "LRU", page |-> "OPEN_PAGE"],
     [mode |-> "DEF", repl |-> "LRU", l2repl |-> "LRU", page |-> "CLOSE_PAGE"]}

\* line addresses of rows 5 (two columns), 7, 21 and 2^32 + 5; rows 5, 21 and
\* 2^32 + 5 are of bank 5, row 7 of bank 7
DramLines == {{4, 6}, {0, 4, 6}, {4, 5, 6}, {4, 6, 8}, {4, 6, 36}}

InitDram == \E k \in DramConfigs : Created(k, MemsysGeometry(k.mode), 1)

DramAccess ==
    /\ steps < MaxDram
    /\ \E line_addr \in DramLines, is_dram_write \in BOOLEAN :
         \E r \in {dram_access(sys.dram, line_addr, is_dram_write, SIM_MODE,
                               DRAM_PAGE_POLICY)} :
             /\ sys' = [sys EXCEPT !.dram = r.dram]
             /\ last' = [op |-> "dram_access", line_addr |-> line_addr,
                         is_dram_write |-> is_dram_write, delay |-> r.delay,
                         before |-> sys.dram]
             /\ hist' = Append(hist, last')
    /\ steps' = steps + 1
    /\ UNCHANGED <<config, DWP_CORE0_WAYS, current_cycle, resident, origin>>

NextDram == DramAccess

SpecDram == InitDram /\ [][NextDram]_vars

\* line_addr >> bank_bits, at its full width
FullRow(line_addr) == ShiftRight(line_addr, Log2(NUM_BANKS))

\* the bank line_addr belongs to
BankOfLine(line_addr) == Val({b \in FullRow(line_addr) : b < Log2(NUM_BANKS)})

\* the accesses so far are reads of the given rows, in order
ReadRows(rows) ==
    /\ Len(hist) = Len(rows)
    /\ \A n \in DOMAIN rows : /\ hist[n].op = "dram_access"
                              /\ ~hist[n].is_dram_write
                              /\ FullRow(hist[n].line_addr) = Word(rows[n])

Delays(ds) == \A n \in DOMAIN ds : hist[n].delay = ds[n]

OpenPageMode == SIM_MODE \in {"C", "DEF"} /\ DRAM_PAGE_POLICY = "OPEN_PAGE"

ClosePageMode == SIM_MODE \in {"C", "DEF"} /\ DRAM_PAGE_POLICY = "CLOSE_PAGE"

\* C13 (as stated): in mode C with the open-page policy and a fresh DRAM, reads
\* of rows 5, 5, 7, 5 return delays 100, 55, 145, 145.
C13_DelaysOneBank ==
    (OpenPageMode /\ ReadRows(<<5, 5, 7, 5>>)) => Delays(<<100, 55, 145, 145>>)

\* C13 (amended): reads of rows 5, 5, 7, 5 return delays 100, 55, 100, 55, rows
\* 5 and 7 being rows of different banks.
C13_DelaysTwoBanks ==
    (OpenPageMode /\ ReadRows(<<5, 5, 7, 5>>)) => Delays(<<100, 55, 100, 55>>)

\* the four reads have been made
C13_Witness ==
    /\ OpenPageMode /\ ReadRows(<<5, 5, 7, 5>>)
    /\ sys.dram.rowbuf[5].valid /\ sys.dram.rowbuf[7].valid

\* the earlier accesses to the bank of the last access
EarlierInBank ==
    {n \in 1..(Len(hist) - 1) : BankOfLine(hist[n].line_addr) = BankOfLine(last.line_addr)}

\* the last access is to the row its bank's row buffer holds valid
RowHeld ==
    /\ last.op = "dram_access"
    /\ last.before.rowbuf[BankOfLine(last.line_addr)].valid
    /\ EarlierInBank # {}
    /\ \E n \in EarlierInBank :
         /\ \A k \in EarlierInBank : k <= n
         /\ FullRow(hist[n].line_addr) = FullRow(last.line_addr)

\* C14: under the open-page policy an access to the row its bank's row buffer
\* holds valid returns delay 55 = DELAY_BUS + DELAY_CAS and leaves the row
\* buffers unchanged, whether it reads or writes.
C14_RowHitCosts55 ==
    (OpenPageMode /\ RowHeld) =>
        /\ last.delay = 55
        /\ last.delay = DELAY_BUS + DELAY_CAS
        /\ sys.dram.rowbuf = last.before.rowbuf

\* a write to the row a read has opened
C14_Witness ==
    /\ OpenPageMode /\ RowHeld
    /\ last.is_dram_write
    /\ \E n \in EarlierInBank : ~hist[n].is_dram_write

\* C15: under the close-page policy every access returns delay 100 whatever came
\* before, and no bank's row buffer is ever valid.
C15_ClosePageCosts100 ==
    ClosePageMode =>
        /\ \A n \in DOMAIN hist : hist[n].op = "dram_access" => hist[n].delay = 100
        /\ \A b \in DOMAIN sys.dram.rowbuf : ~sys.dram.rowbuf[b].valid

\* two accesses to one row of one bank
C15_Witness ==
    /\ ClosePageMode
    /\ Len(hist) >= 2 /\ last.op = "dram_access"
    /\ hist[Len(hist) - 1].line_addr = last.line_addr

---------------------------------------------------------------------------
(* Two cores and one virtual line: mode D/E/F from an empty memory system. *)

\* byte addresses 0 and 32, both of virtual line 0, and 4096 of the next page
SharedAddrs == {{}, {5}, {12}}

InitShared ==
    \E k \in {c \in Configs : c.mode = "DEF"} : Created(k, MemsysGeometry(k.mode), 1)

SharedAccess == Reference(SharedAddrs, AccessTypes, {0, 1}, MaxShared)

NextShared == SharedAccess \/ AdvanceCycle

SpecShared == InitShared /\ [][NextShared]_vars

\* the virtual line address of reference h
VirtualLine(h) == ShiftRight(h.addr, Log2(CACHE_LINESIZE))

\* the lookups reference h made in its L1 cache and in the L2
L1Lookups(h) ==
    {i \in DOMAIN h.ev : h.ev[i].call = "cache_access" /\ h.ev[i].cache # "L2CACHE"}

L2Lookups(h) ==
    {i \in DOMAIN h.ev : h.ev[i].call = "cache_access" /\ h.ev[i].cache = "L2CACHE"}

\* core 0 and core 1 have each referenced virtual line 0, and nothing else was done
BothCoresLineZero ==
    /\ SIM_MODE = "DEF"
    /\ Len(hist) = 2
    /\ {hist[1].core_id, hist[2].core_id} = {0, 1}
    /\ VirtualLine(hist[1]) = {} /\ VirtualLine(hist[2]) = {}

\* C16: in mode D/E/F from an empty memory system, when core 0 and core 1 each
\* reference virtual line 0, the frames are 0 and 0x200000 (2097152), both L1
\* lookups miss and both L2 lookups miss.
C16_SameVirtualLineNoSharing ==
    BothCoresLineZero =>
        \A n \in {1, 2} :
            /\ Val(memsys_convert_vpn_to_pfn({}, hist[n].core_id))
                 = (IF hist[n].core_id = 0 THEN 0 ELSE 2097152)
            /\ L1Lookups(hist[n]) # {} /\ L2Lookups(hist[n]) # {}
            /\ \A i \in L1Lookups(hist[n]) \cup L2Lookups(hist[n]) :
                 /\ hist[n].ev[i].outcome = "MISS"
                 /\ hist[n].ev[i].line_addr
                      = ShiftLeft(memsys_convert_vpn_to_pfn({}, hist[n].core_id),
                                  Log2(PAGE_SIZE) - Log2(CACHE_LINESIZE))

\* core 1 fetched the line first, then core 0 stored to it
C16_Witness ==
    /\ BothCoresLineZero
    /\ hist[1].core_id = 1 /\ hist[2].type = "STORE"
    /\ hist[1].addr # hist[2].addr

---------------------------------------------------------------------------
(* One 8-way LRU set: lines T0..T7 installed in that order, T0 accessed,   *)
(* T8 installed, the clock advancing (or not) between the calls.           *)

\* a data cache of one set of eight ways
LRUGeometry ==
    [DCACHE_SIZE  |-> 8 * CACHE_LINESIZE, DCACHE_ASSOC  |-> 8,
     ICACHE_SIZE  |-> CACHE_LINESIZE, ICACHE_ASSOC  |-> 1,
     L2CACHE_SIZE |-> CACHE_LINESIZE, L2CACHE_ASSOC |-> 1,
     NUM_CORES    |-> 1]

\* line Tk is line address k
LRUScript ==
    [k \in 1..8 |-> [op |-> "cache_install", line_addr |-> Word(k - 1)]]
      \o <<[op |-> "cache_access",  line_addr |-> Word(0)],
           [op |-> "cache_install", line_addr |-> Word(8)]>>

InitLRU ==
    Created([mode |-> "A", repl |-> "LRU", l2repl |-> "LRU", page |-> "OPEN_PAGE"],
            LRUGeometry, 1)

\* the next call of the script, when it is an install
LRUInstall ==
    /\ steps < Len(LRUScript)
    /\ LRUScript[steps + 1].op = "cache_install"
    /\ \E is_write \in BOOLEAN :
         \E r \in {cache_install(sys.dcache, LRUScript[steps + 1].line_addr, is_write, 0,
                                 current_cycle, SWP_CORE0_WAYS, DWP_CORE0_WAYS, 0)} :
             /\ sys' = [sys EXCEPT !.dcache = r.c]
             /\ DWP_CORE0_WAYS' = r.dwp
             /\ last' = [op |-> "cache_install",
                         line_addr |-> LRUScript[steps + 1].line_addr,
                         is_write |-> is_write, core_id |-> 0, outcome |-> "NONE",
                         way |-> r.way, cycle |-> current_cycle]
             /\ hist' = Append(hist, last')
    /\ steps' = steps + 1
    /\ UNCHANGED <<config, current_cycle, resident, origin>>

\* the next call of the script, when it is an access
LRUAccess ==
    /\ steps < Len(LRUScript)
    /\ LRUScript[steps + 1].op = "cache_access"
    /\ \E is_write \in BOOLEAN :
         \E r \in {cache_access(sys.dcache, LRUScript[steps + 1].line_addr, is_write, 0,
                                current_cycle)} :
             /\ sys' = [sys EXCEPT !.dcache = r.c]
             /\ last' = [op |-> "cache_access",
                         line_addr |-> LRUScript[steps + 1].line_addr,
                         is_write |-> is_write, core_id |-> 0, outcome |-> r.outcome,
                         way |-> r.way, cycle |-> current_cycle]
             /\ hist' = Append(hist, last')
    /\ steps' = steps + 1
    /\ UNCHANGED <<config, DWP_CORE0_WAYS, current_cycle, resident, origin>>

NextLRU == LRUInstall \/ LRUAccess \/ AdvanceCycle

SpecLRU == InitLRU /\ [][NextLRU]_vars

\* the whole script has run, on an 8-way LRU set
LRUScriptDone ==
    /\ sys.dcache.policy = "LRU" /\ sys.dcache.ways = 8
    /\ Len(hist) = Len(LRUScript)
    /\ \A n \in DOMAIN hist : /\ hist[n].op = LRUScript[n].op
                              /\ hist[n].line_addr = LRUScript[n].line_addr

\* the access to T0 hit, and the install of T8 evicted the way that held T1
EvictedT1 ==
    /\ hist[9].outcome = "HIT"
    /\ last.way = hist[2].way
    /\ sys.dcache.lastEvictedLine.valid
    /\ sys.dcache.lastEvictedLine.tag = TagOf(sys.dcache, Word(1))

\* C17 (as stated): install T0..T7 in an 8-way LRU set, access T0 (a hit),
\* install T8: the evicted way is the one that held T1.
C17_EvictsT1 == LRUScriptDone => EvictedT1

\* C17 (amended): the same, provided current_cycle advanced between the install
\* of T1 and the access to T0.
C17_EvictsT1WhenClockAdvanced ==
    (LRUScriptDone /\ hist[2].cycle < hist[9].cycle) => EvictedT1

\* the script has run with the clock advancing after the install of T1
C17_Witness ==
    /\ LRUScriptDone /\ hist[2].cycle < hist[9].cycle
    /\ last.op = "cache_install" /\ last.way = 1

---------------------------------------------------------------------------
(* The address translation of modes D/E/F on its own.                      *)

\* virtual line addresses: offsets 0, 1, 32, 33 within the page, and page
\* numbers built from bits 0, 19, 20, 21 and 51
TranslateLines == SUBSET {0, 5, 6, 25, 26, 27, 57}

InitTranslate ==
    \E k \in {c \in Configs : c.mode = "DEF"} : Created(k, MemsysGeometry(k.mode), 1)

\* the first lines of memsys_access_modeDEF, for one line address and one core
Translate ==
    /\ \E v_line_addr \in TranslateLines, core_id \in {0, 1} :
         last' = [op |-> "translate", v_line_addr |-> v_line_addr,
                  core_id |-> core_id,
                  vpn |-> ShiftRight(v_line_addr,
                                     Log2(PAGE_SIZE) - Log2(CACHE_LINESIZE)),
                  p_line_addr |-> PhysicalLine(v_line_addr, core_id)]
    /\ UNCHANGED <<config, DWP_CORE0_WAYS, current_cycle, sys, resident, origin,
                   hist, steps>>

NextTranslate == Translate

SpecTranslate == InitTranslate /\ [][NextTranslate]_vars

\* the page numbers small enough to be computed with as integers
SmallVpn(vpn) == \A b \in vpn : b < 24

\* C18: for every vpn the frames of core 0 and core 1 differ, the frame is
\* (vpn & 0xFFFFF) + (core_id << 21) + ((vpn >> 20) << 21), and the translated
\* line address is (pfn << offset_bits) | (v_line_addr & offset_mask).
C18_TranslationPerCore ==
    last.op = "translate" =>
        /\ memsys_convert_vpn_to_pfn(last.vpn, 0) # memsys_convert_vpn_to_pfn(last.vpn, 1)
        /\ memsys_convert_vpn_to_pfn(last.vpn, 1)
             = Add64(memsys_convert_vpn_to_pfn(last.vpn, 0), {21})
        /\ SmallVpn(last.vpn) =>
             Val(memsys_convert_vpn_to_pfn(last.vpn, last.core_id))
               = (Val(last.vpn) % 1048576) + last.core_id * 2097152
                   + (Val(last.vpn) \div 1048576) * 2097152
        /\ ShiftRight(last.p_line_addr, 6)
             = memsys_convert_vpn_to_pfn(last.vpn, last.core_id)
        /\ {b \in last.p_line_addr : b < 6} = {b \in last.v_line_addr : b < 6}

\* core 1 translating a line with a non-zero offset in a page whose number
\* has bit 20 set
C18_Witness ==
    /\ last.op = "translate" /\ last.core_id = 1
    /\ 20 \in last.vpn /\ SmallVpn(last.vpn)
    /\ 0 \in last.v_line_addr /\ 5 \in last.v_line_addr

---------------------------------------------------------------------------
(* Delay and order of the calls of one reference (Spec) *)

IsL1Lookup(i) == last.ev[i].call = "cache_access" /\ last.ev[i].cache # "L2CACHE"
IsL2Lookup(i) == last.ev[i].call = "cache_access" /\ last.ev[i].cache = "L2CACHE"
IsDramRead(i) == last.ev[i].call = "dram_access" /\ ~last.ev[i].is_dram_write
IsDemand(i)   == IsL2Call(i) /\ ~last.ev[i].is_writeback

RECURSIVE SumDelays(_)
SumDelays(S) ==
    IF S = {} THEN 0
    ELSE LET i == CHOOSE j \in S : TRUE IN last.ev[i].delay + SumDelays(S \ {i})

\* the DRAM reads of the demanded line: those of the demand L2 access
DemandReads ==
    {j \in Events : IsDramRead(j) /\ \E i \in Events : IsDemand(i) /\ j \in CallBody(i)}

\* the calls whose delay the code throws away: the writeback L2 accesses and
\* every DRAM access made inside them, and the DRAM writes
Uncharged ==
    {j \in Events : \/ IsWriteback(j)
                    \/ IsDramWrite(j)
                    \/ /\ last.ev[j].call = "dram_access"
                       /\ \E i \in Events : IsWriteback(i) /\ j \in CallBody(i)}

\* C19: in modes B-F the delay of a reference is 1 on an L1 hit, 1 + 10 on an L1
\* miss that hits the L2, and 1 + 10 + the delay of the DRAM read of the demanded
\* line on an L2 miss; nothing is added for writebacks.
C19_DelayOfReference ==
    (Hierarchy /\ last.op = "memsys_access") =>
        /\ Cardinality({i \in Events : IsL1Lookup(i)}) = 1
        /\ \A i \in Events : IsL1Lookup(i) =>
             IF last.ev[i].outcome = "HIT"
             THEN last.delay = 1
             ELSE /\ Cardinality({k \in Events : IsDemand(k)}) = 1
                  /\ \A k \in Events : IsDemand(k) =>
                       /\ IsL2Lookup(k + 1)
                       /\ IF last.ev[k + 1].outcome = "HIT"
                          THEN DemandReads = {} /\ last.delay = 1 + 10
                          ELSE /\ Cardinality(DemandReads) = 1
                               /\ \A j \in DemandReads :
                                    last.ev[j].line_addr = last.ev[k].line_addr
                               /\ last.delay = 1 + 10 + SumDelays(DemandReads)

\* an L2 miss in mode C whose reference also wrote a victim back, the writeback
\* itself going to DRAM
C19_Witness ==
    /\ SIM_MODE = "C" /\ last.op = "memsys_access"
    /\ DemandReads # {}
    /\ \E j \in Uncharged : IsWriteback(j)
    /\ \E j \in Uncharged : last.ev[j].call = "dram_access" /\ last.ev[j].delay > 0

\* the calls made on the L2 and the DRAM
IsLowerLevel(i) == last.ev[i].call = "dram_access" \/ last.ev[i].cache = "L2CACHE"

\* C20: within one reference the writeback L2 access of an L1 victim comes after
\* the L1 install of the missing line, which comes after the whole demand L2
\* access; the DRAM write of an L2 victim comes after the DRAM read and the L2
\* install of the missing line.
C20_WritebackAfterInstall ==
    last.op = "memsys_access" =>
        /\ \A w \in Events : IsWriteback(w) =>
             \E j \in Events :
                /\ IsL1Install(j) /\ j < w /\ DirtyVictim(j)
                /\ \E k \in Events : IsDemand(k) /\ k < j
                /\ \A e \in Events : (e < w /\ last.ev[e].call # "cache_install"
                                            /\ last.ev[e].call # "memsys_l2_access"
                                            /\ IsLowerLevel(e)) => e < j
                /\ \A e \in Events : (e < w /\ IsL2Install(e)) => e < j
        /\ \A w \in Events : IsDramWrite(w) =>
             \E i \in Events :
                /\ IsL2Call(i) /\ w \in CallBody(i)
                /\ \E r \in CallBody(i), q \in CallBody(i) :
                     /\ IsDramRead(r) /\ IsL2Install(q)
                     /\ r < q /\ q < w
                     /\ DirtyVictim(q)
                     /\ last.ev[r].line_addr = last.ev[i].line_addr
                     /\ last.ev[q].line_addr = last.ev[i].line_addr

\* a reference that wrote an L1 victim back and an L2 victim to DRAM
C20_Witness ==
    /\ last.op = "memsys_access"
    /\ \E w \in Events : IsWriteback(w)
    /\ \E w \in Events : IsDramWrite(w)

---------------------------------------------------------------------------
(* A way-partitioned cache on its own: one set of two ways under SWP or    *)
(* DWP, read by two cores (SpecPartition).                                 *)

\* a data cache of one set with two ways
PartGeometry == [DCACHE_SIZE |-> 2 * CACHE_LINESIZE, DCACHE_ASSOC |-> 2,
                 ICACHE_SIZE |-> 2 * CACHE_LINESIZE, ICACHE_ASSOC |-> 2,
                 L2CACHE_SIZE |-> 2 * CACHE_LINESIZE, L2CACHE_ASSOC |-> 2,
                 NUM_CORES |-> 2]

\* line 0, read by either core
PartLine == Word(0)

InitPartition ==
    /\ SIM_MODE = "A"
    /\ REPL_POLICY \in {"SWP", "DWP"}
    /\ L2CACHE_REPL = "LRU"
    /\ DRAM_PAGE_POLICY = "OPEN_PAGE"
    /\ SWP_CORE0_WAYS = 1
    /\ DWP_CORE0_WAYS = 0
    /\ current_cycle = 0
    /\ sys = memsys_new("A", PartGeometry, REPL_POLICY, L2CACHE_REPL)
    /\ last = NoCall
    /\ resident = {}
    /\ origin = <<>>
    /\ hist = <<>>
    /\ steps = 0

PartAccess ==
    /\ steps < MaxPart
    /\ \E core_id \in Cores :
         \E r \in {cache_access(sys.dcache, PartLine, FALSE, core_id, current_cycle)} :
            /\ sys' = [sys EXCEPT !.dcache = r.c]
            /\ last' = [op |-> "cache_access", line_addr |-> PartLine,
                        is_write |-> FALSE, core_id |-> core_id,
                        outcome |-> r.outcome, way |-> r.way,
                        before |-> sys.dcache, cycle |-> current_cycle,
                        dwp |-> DWP_CORE0_WAYS]
    /\ steps' = steps + 1
    /\ UNCHANGED <<config, DWP_CORE0_WAYS, current_cycle, resident, origin, hist>>

PartInstall ==
    /\ steps < MaxPart
    /\ \E core_id \in Cores :
         \E r \in {cache_install(sys.dcache, PartLine, FALSE, core_id, current_cycle,
                                 SWP_CORE0_WAYS, DWP_CORE0_WAYS, 0)} :
            /\ sys' = [sys EXCEPT !.dcache = r.c]
            /\ DWP_CORE0_WAYS' = r.dwp
            /\ last' = [op |-> "cache_install", line_addr |-> PartLine,
                        is_write |-> FALSE, core_id |-> core_id,
                        outcome |-> "NONE", way |-> r.way,
                        before |-> sys.dcache, cycle |-> current_cycle,
                        dwp |-> DWP_CORE0_WAYS]
    /\ steps' = steps + 1
    /\ UNCHANGED <<config, current_cycle, resident, origin, hist>>

NextPartition == PartAccess \/ PartInstall \/ AdvanceCycle

SpecPartition == InitPartition /\ [][NextPartition]_vars

\* the last call was a victim search of the partitioning policy `policy` on a
\* full set
FullSearch(policy) ==
    /\ last.op = "cache_install"
    /\ last.before.policy = policy
    /\ FullSet(last.before, LastSet)

\* core_to_assign of the last victim search: the quota is SWP_CORE0_WAYS, or
\* the DWP_CORE0_WAYS the search has just stored
TargetCore ==
    CoreToAssign(last.before.cacheGrid[LastSet].ways_per_core[0],
                 IF last.before.policy = "SWP" THEN SWP_CORE0_WAYS ELSE DWP_CORE0_WAYS,
                 last.core_id)

\* the target core of the last search owned no line of the set
NoCandidate == OwnedWays(last.before, LastSet, TargetCore) = {}

\* C21: an SWP or DWP victim search on a full set in which the target core owns
\* no line aborts, so no install ever completes from such a search.
C21_SearchWithoutCandidateAborts ==
    (FullSearch("SWP") \/ FullSearch("DWP")) => ~NoCandidate

\* C28: under SWP, when the set is full and the target core owns no line in it,
\* cache_find_victim returns way 0 and the install evicts the line of way 0,
\* whoever owns it and whatever its lastAccessTime.
C28_SWPWayZeroWithoutCandidate ==
    (FullSearch("SWP") /\ NoCandidate) =>
        /\ last.way = 0
        /\ sys.dcache.lastEvictedLine = last.before.cacheGrid[LastSet].row[0]
        /\ sys.dcache.cacheGrid[LastSet].row[0]
             = InstalledLine(LastTag, last.is_write, last.core_id, last.cycle)
        /\ sys.dcache.cacheGrid[LastSet].row[1] = last.before.cacheGrid[LastSet].row[1]

\* core 1 installs into a set owned by core 0 whose way 0 is the more recently
\* used line
C28_Witness ==
    /\ FullSearch("SWP") /\ NoCandidate
    /\ last.core_id = 1
    /\ last.before.cacheGrid[LastSet].ways_per_core[0] >= SWP_CORE0_WAYS
    /\ last.before.cacheGrid[LastSet].row[0].coreID = 0
    /\ last.before.cacheGrid[LastSet].row[0].lastAccessTime
         > last.before.cacheGrid[LastSet].row[1].lastAccessTime

\* floor(0.7 * h + 0.3 * m) in exact arithmetic
ExactUtility(h, m) == (7 * h + 3 * m) \div 10

\* the sum of umon.totalHits over the ways `among` of a set
RECURSIVE HitsOf(_, _)
HitsOf(set, among) ==
    IF among = {} THEN 0
    ELSE LET w == CHOOSE x \in among : TRUE
         IN  set.umon.totalHits[w] + HitsOf(set, among \ {w})

\* the hits of the ways core k owns in set s
HitsOwned(c, s, k) == HitsOf(c.cacheGrid[s], OwnedWays(c, s, k))

\* floor(u0 * W / max(u0 + u1, 1))
Share(u0, u1, ways) == (u0 * ways) \div (IF u0 + u1 >= 1 THEN u0 + u1 ELSE 1)

\* the quota of set s from utilities that are exact floors
ExactQuota(c, s) ==
    Share(ExactUtility(HitsOwned(c, s, 0), c.cacheGrid[s].umon.totalMisses),
          ExactUtility(HitsOwned(c, s, 1), c.cacheGrid[s].umon.totalMisses), c.ways)

\* the quota of set s from utilities as the double arithmetic yields them
DoubleQuota(c, s) ==
    Share(Utility(HitsOwned(c, s, 0), c.cacheGrid[s].umon.totalMisses),
          Utility(HitsOwned(c, s, 1), c.cacheGrid[s].umon.totalMisses), c.ways)

\* the last install took its victim by the SWP procedure under the quota now in
\* DWP_CORE0_WAYS: the oldest line of the target core, the lowest way on ties,
\* and way 0 when the target core owns none
VictimBySWPProcedure ==
    IF NoCandidate THEN last.way = 0
    ELSE OldestLowest(last.before.cacheGrid[LastSet].row,
                      OwnedWays(last.before, LastSet, TargetCore), last.way)

\* what a DWP install does to DWP_CORE0_WAYS, the utilities being exact floors
\* or the values of the double arithmetic
DWPSearch(exact) ==
    (last.op = "cache_install" /\ last.before.policy = "DWP") =>
        IF FullSet(last.before, LastSet)
        THEN /\ DWP_CORE0_WAYS = (IF exact THEN ExactQuota(last.before, LastSet)
                                  ELSE DoubleQuota(last.before, LastSet))
             /\ VictimBySWPProcedure
        ELSE /\ DWP_CORE0_WAYS = last.dwp
             /\ last.way = Min(Ways(last.before) \ ValidWays(last.before, LastSet))

\* C29: a DWP victim search on a full set sets DWP_CORE0_WAYS to
\* floor(u0 * W / max(u0 + u1, 1)) with u_c = floor(0.7 * hits of the ways of
\* core c + 0.3 * misses of the set), then takes the victim by the SWP
\* procedure under that quota; on a set with an invalid way it leaves
\* DWP_CORE0_WAYS unchanged.
C29_DynamicQuotaIsFloor == DWPSearch(TRUE)

\* the same with the utilities as the double arithmetic of the code yields them
C29_DynamicQuotaInDoubles == DWPSearch(FALSE)

---------------------------------------------------------------------------
(* Where a dirty L1 victim ends up (Spec) *)

\* the line address the L1 victim written back at position i was installed under
VictimLine(i) == last.ev[VictimInstall(i)].evicted_origin

\* the L2 holds line_addr for core_id as a valid dirty line
HeldDirtyInL2(line_addr, core_id) ==
    \E w \in Holding(sys.l2cache, SetIndex(sys.l2cache, line_addr),
                     TagOf(sys.l2cache, line_addr), core_id) :
        sys.l2cache.cacheGrid[SetIndex(sys.l2cache, line_addr)].row[w].dirty

\* C22: once the writeback memsys_l2_access of a dirty L1 victim has returned,
\* the L2 holds the victim's line address for the requesting core as a valid
\* dirty line, whether the writeback hit or missed in the L2.
C22_DirtyVictimHeldByL2 ==
    (Hierarchy /\ last.op = "memsys_access") =>
        \A i \in Events : IsWriteback(i) => HeldDirtyInL2(VictimLine(i), last.core_id)

\* C22 (a victim whose line address is below 2^32): the L2 holds it dirty
C22_LowVictimHeldByL2 ==
    (Hierarchy /\ last.op = "memsys_access") =>
        \A i \in Events :
            (IsWriteback(i) /\ \A b \in VictimLine(i) : b < UNSIGNED_BITS)
            => HeldDirtyInL2(VictimLine(i), last.core_id)

---------------------------------------------------------------------------
(* Mode A (Spec) *)

\* the step is a call of memsys_access in mode A
ModeAReference == SIM_MODE = "A" /\ steps' = steps + 1

\* the calls of the new reference are one cache_access on the data cache and,
\* after a MISS, one cache_install of the same line
OneDcacheAccess ==
    LET ev        == last'.ev
        line_addr == ShiftRight(last'.addr, Log2(CACHE_LINESIZE))
        is_write  == (last'.type = "STORE")
    IN  /\ Len(ev) >= 1
        /\ ev[1].call = "cache_access" /\ ev[1].cache = "DCACHE"
        /\ ev[1].line_addr = line_addr /\ ev[1].is_write = is_write
        /\ sys'.dcache.stat_read_access + sys'.dcache.stat_write_access
             = sys.dcache.stat_read_access + sys.dcache.stat_write_access + 1
        /\ IF ev[1].outcome = "MISS"
           THEN /\ Len(ev) = 2
                /\ ev[2].call = "cache_install" /\ ev[2].cache = "DCACHE"
                /\ ev[2].line_addr = line_addr /\ ev[2].is_write = is_write
           ELSE Len(ev) = 1

\* C23: in mode A memsys_access returns 0 for every reference; an IFETCH changes
\* no cache state and no cache counter; a LOAD or STORE performs one dcache
\* access and, on a miss, one dcache install.
C23_ModeA ==
    [][ModeAReference =>
          /\ last'.delay = 0
          /\ IF last'.type = "IFETCH"
             THEN /\ last'.ev = <<>>
                  /\ \A name \in CacheLabels(SIM_MODE) :
                       GetCache(sys', name) = GetCache(sys, name)
             ELSE OneDcacheAccess]_vars

\* an instruction fetch in mode A, made when the data cache holds a dirty line
C23_Witness ==
    /\ SIM_MODE = "A" /\ last.op = "memsys_access"
    /\ last.type = "IFETCH"
    /\ \E s \in 0..(sys.dcache.sets - 1) :
         \E w \in ValidWays(sys.dcache, s) : sys.dcache.cacheGrid[s].row[w].dirty

---------------------------------------------------------------------------
(* Frame of cache_access and cache_install (SpecCache) *)

\* the invalid ways of set s
InvalidWays(c, s) == Ways(c) \ ValidWays(c, s)

\* C24: under every replacement policy, cache_find_victim on a set with an
\* invalid way returns the lowest invalid way, so an install into such a set
\* evicts no valid line: lastEvictedLine is invalid, stat_dirty_evicts stays and
\* every valid line of the set is kept.
C24_InvalidWayFirst ==
    /\ \A s \in 0..(sys.dcache.sets - 1), k \in Cores, rnd \in Ways(sys.dcache) :
         InvalidWays(sys.dcache, s) # {} =>
            cache_find_victim(sys.dcache, s, k, SWP_CORE0_WAYS, DWP_CORE0_WAYS, rnd).index
              = Min(InvalidWays(sys.dcache, s))
    /\ (last.op = "cache_install" /\ InvalidWays(last.before, LastSet) # {}) =>
         /\ last.way = Min(InvalidWays(last.before, LastSet))
         /\ ~sys.dcache.lastEvictedLine.valid
         /\ sys.dcache.stat_dirty_evicts = last.before.stat_dirty_evicts
         /\ \A w \in ValidWays(last.before, LastSet) :
              sys.dcache.cacheGrid[LastSet].row[w] = last.before.cacheGrid[LastSet].row[w]

\* an install that took way 1 because way 0 held a dirty line, under a policy
\* other than LRU
C24_Witness ==
    /\ last.op = "cache_install"
    /\ last.before.policy # "LRU"
    /\ InvalidWays(last.before, LastSet) = {1}
    /\ last.before.cacheGrid[LastSet].row[0].dirty
    /\ last.way = 1

\* the access and miss counters after one more access of the kind is_write, a
\* miss counting as `missed`
CountersAfter(c, is_write, missed) ==
    [stat_read_access  |-> c.stat_read_access + (IF is_write THEN 0 ELSE 1),
     stat_write_access |-> c.stat_write_access + (IF is_write THEN 1 ELSE 0),
     stat_read_miss    |-> c.stat_read_miss + (IF missed /\ ~is_write THEN 1 ELSE 0),
     stat_write_miss   |-> c.stat_write_miss + (IF missed /\ is_write THEN 1 ELSE 0),
     stat_dirty_evicts |-> c.stat_dirty_evicts]

\* the five counters of a cache
Counters(c) ==
    [stat_read_access  |-> c.stat_read_access,
     stat_write_access |-> c.stat_write_access,
     stat_read_miss    |-> c.stat_read_miss,
     stat_write_miss   |-> c.stat_write_miss,
     stat_dirty_evicts |-> c.stat_dirty_evicts]

\* sets other than s are the same in caches b and c
OtherSetsSame(b, c, s) ==
    \A t \in 0..(b.sets - 1) : t # s => c.cacheGrid[t] = b.cacheGrid[t]

\* C25: a cache_access that returns MISS changes no cache line of any set, no
\* ways_per_core and not lastEvictedLine; it adds one to the access and the miss
\* counter of its kind and to the accessed set's umon.totalMisses.  A HIT
\* changes only the hit way's dirty (set on a write, never cleared) and
\* lastAccessTime, that way's umon.totalHits and the access counter.
C25_AccessFrame ==
    last.op = "cache_access" =>
        LET b   == last.before
            c   == sys.dcache
            s   == LastSet
            old == last.before.cacheGrid[LastSet]
            new == sys.dcache.cacheGrid[LastSet]
        IN  /\ OtherSetsSame(b, c, s)
            /\ c.lastEvictedLine = b.lastEvictedLine
            /\ new.ways_per_core = old.ways_per_core
            /\ Counters(c) = CountersAfter(b, last.is_write, last.outcome = "MISS")
            /\ [c EXCEPT !.cacheGrid = b.cacheGrid,
                         !.stat_read_access = 0, !.stat_write_access = 0,
                         !.stat_read_miss = 0, !.stat_write_miss = 0]
                 = [b EXCEPT !.stat_read_access = 0, !.stat_write_access = 0,
                             !.stat_read_miss = 0, !.stat_write_miss = 0]
            /\ IF last.outcome = "MISS"
               THEN /\ new.row = old.row
                    /\ new.umon.totalHits = old.umon.totalHits
                    /\ new.umon.totalMisses = old.umon.totalMisses + 1
               ELSE /\ last.outcome = "HIT"
                    /\ new.umon.totalMisses = old.umon.totalMisses
                    /\ \A w \in Ways(b) : w # last.way =>
                         /\ new.row[w] = old.row[w]
                         /\ new.umon.totalHits[w] = old.umon.totalHits[w]
                    /\ new.umon.totalHits[last.way] = old.umon.totalHits[last.way] + 1
                    /\ new.row[last.way] =
                         [old.row[last.way] EXCEPT
                            !.dirty = (old.row[last.way].dirty \/ last.is_write),
                            !.lastAccessTime = last.cycle]

\* a read that hits a dirty line at a later cycle than its install
C25_Witness ==
    /\ last.op = "cache_access"
    /\ last.outcome = "HIT"
    /\ ~last.is_write
    /\ last.before.cacheGrid[LastSet].row[last.way].dirty
    /\ last.before.cacheGrid[LastSet].row[last.way].lastAccessTime < last.cycle

\* C26: cache_install sets lastEvictedLine to the content the victim way had
\* before the call (an invalid line when the way was empty), adds one to
\* stat_dirty_evicts exactly when that content was valid and dirty, writes the
\* new line with dirty = is_write, and changes no other way of the set and no
\* other set.
C26_InstallFrame ==
    last.op = "cache_install" =>
        LET old    == last.before.cacheGrid[LastSet]
            new    == sys.dcache.cacheGrid[LastSet]
            victim == last.before.cacheGrid[LastSet].row[last.way]
        IN  /\ last.way \in Ways(last.before)
            /\ sys.dcache.lastEvictedLine = victim
            /\ sys.dcache.stat_dirty_evicts
                 = last.before.stat_dirty_evicts
                     + (IF victim.valid /\ victim.dirty THEN 1 ELSE 0)
            /\ new.row[last.way] = [valid |-> TRUE, dirty |-> last.is_write,
                                    tag |-> LastTag, coreID |-> last.core_id,
                                    lastAccessTime |-> last.cycle]
            /\ \A w \in Ways(last.before) : w # last.way => new.row[w] = old.row[w]
            /\ OtherSetsSame(last.before, sys.dcache, LastSet)

\* a write install that replaced a valid clean line
C26_Witness ==
    /\ last.op = "cache_install"
    /\ last.is_write
    /\ sys.dcache.lastEvictedLine.valid
    /\ ~sys.dcache.lastEvictedLine.dirty
    /\ sys.dcache.stat_dirty_evicts = 0

---------------------------------------------------------------------------
(* The open-page policy bank by bank (SpecDram) *)

\* the row of the latest earlier access to the bank of the last access
RowLeftInBank ==
    FullRow(hist[CHOOSE n \in EarlierInBank : \A k \in EarlierInBank : k <= n].line_addr)

\* the row of a line as the spec defines it, or as kept in 32 bits
RowAs(full_row, narrowed) == IF narrowed THEN ToUnsigned(full_row) ELSE full_row

\* what the open-page policy does on an idle bank and on a bank that holds
\* another row; the other banks keep their row buffers and a valid row buffer
\* stays valid
OpenPageMisses(narrowed) ==
    (OpenPageMode /\ last.op = "dram_access") =>
        LET b   == BankOfLine(last.line_addr)
            row == RowAs(FullRow(last.line_addr), narrowed)
            old == last.before.rowbuf[BankOfLine(last.line_addr)]
            new == sys.dram.rowbuf[BankOfLine(last.line_addr)]
        IN  /\ ~old.valid =>
                 /\ last.delay = 100
                 /\ new = [valid |-> TRUE, rowID |-> row]
            /\ (old.valid /\ RowAs(RowLeftInBank, narrowed) # row) =>
                 /\ last.delay = 145
                 /\ new = [valid |-> TRUE, rowID |-> row]
            /\ \A o \in DOMAIN sys.dram.rowbuf :
                 /\ o # b => sys.dram.rowbuf[o] = last.before.rowbuf[o]
                 /\ last.before.rowbuf[o].valid => sys.dram.rowbuf[o].valid

\* C27: under the open-page policy an access to bank b = (line_addr >> bank_bits)
\* mod 16 costs 100 and makes rowbuf[b] = {valid, row} when rowbuf[b] was
\* invalid, and costs 145 and sets rowbuf[b].row_id = row when rowbuf[b] was
\* valid with a different row, row being line_addr >> bank_bits; the row buffers
\* of the other banks are unchanged and a valid row buffer stays valid.
C27_OpenPageMisses == OpenPageMisses(FALSE)

\* C27 with the delays alone
C27_OpenPageMissDelays ==
    (OpenPageMode /\ last.op = "dram_access"
       /\ last.before.rowbuf[BankOfLine(last.line_addr)].valid
       /\ RowLeftInBank # FullRow(last.line_addr)) => last.delay = 145

\* C27 with rows as the code keeps them, in 32 bits
C27_OpenPageMissesNarrowedRow == OpenPageMisses(TRUE)

---------------------------------------------------------------------------
(* The policies the caches are created with: every mode that has an L2,    *)
(* with -repl and -L2repl set apart (SpecPolicies).                        *)

PolicyConfigs ==
    {[mode |-> mode, repl |-> repl, l2repl |-> l2repl, page |-> "OPEN_PAGE"] :
        mode \in {"B", "C", "DEF"}, repl \in {"LRU", "RANDOM"}, l2repl \in {"LRU", "SWP"}}

InitPolicies == \E k \in PolicyConfigs : Created(k, MemsysGeometry(k.mode), 1)

PolicyAccess ==
    Reference(MemsysAddrs(SIM_MODE), AccessTypes, MemsysCores(SIM_MODE), MaxPolicyRefs)

NextPolicies == PolicyAccess

SpecPolicies == InitPolicies /\ [][NextPolicies]_vars

\* the L1 caches of the mode
L1Labels == CacheLabels(SIM_MODE) \ {"L2CACHE"}

\* every L1 cache has the policy of -repl
L1PolicyIsRepl == \A name \in L1Labels : GetCache(sys, name).policy = REPL_POLICY

\* C30: in every mode that has an L2 (B, C and D/E/F) the shared L2 is created
\* with the l2repl policy (L2CACHE_REPL) and the L1 instruction and data caches
\* with the repl policy (REPL_POLICY).
C30_L2CreatedWithL2Repl ==
    Hierarchy => (sys.l2cache.policy = L2CACHE_REPL /\ L1PolicyIsRepl)

\* C30 as the code has it: the L2 of modes B and C takes the repl policy, the L2
\* of mode D/E/F the l2repl policy
C30_L2PolicyByMode ==
    Hierarchy =>
        /\ L1PolicyIsRepl
        /\ sys.l2cache.policy = (IF SIM_MODE = "DEF" THEN L2CACHE_REPL ELSE REPL_POLICY)

---------------------------------------------------------------------------
(* Invariants of the memory system (Spec) *)

\* the instruction caches of the mode
ICacheLabels == CacheLabels(SIM_MODE) \cap {"ICACHE", "ICACHE_0", "ICACHE_1"}

\* the data caches of the mode
DCacheLabels == CacheLabels(SIM_MODE) \cap {"DCACHE", "DCACHE_0", "DCACHE_1"}

\* the valid dirty lines of cache c, as <<set, way>>
DirtyLines(c) ==
    {p \in (0..(c.sets - 1)) \X Ways(c) :
        c.cacheGrid[p[1]].row[p[2]].valid /\ c.cacheGrid[p[1]].row[p[2]].dirty}

\* C31: in modes B-F no instruction cache ever holds a valid dirty line, so an
\* IFETCH miss, which skips the writeback check, never discards dirty data.
C31_IcacheNeverDirty ==
    Hierarchy =>
        /\ \A name \in ICacheLabels : DirtyLines(GetCache(sys, name)) = {}
        /\ \A i \in Events :
             (IsL1Install(i) /\ last.ev[i].cache \in ICacheLabels) => ~DirtyVictim(i)

\* an IFETCH miss that replaced a valid line of the instruction cache, without
\* a writeback
C31_Witness ==
    /\ Hierarchy /\ last.op = "memsys_access" /\ last.type = "IFETCH"
    /\ \E i \in Events : /\ IsL1Install(i) /\ last.ev[i].cache \in ICacheLabels
                         /\ last.ev[i].evicted.valid
    /\ \A i \in Events : ~IsWriteback(i)

---------------------------------------------------------------------------
(* The memory system with set-associative L1 caches: one set of two ways   *)
(* in each L1, two sets of two ways in the L2 (SpecAssoc).                 *)

AssocGeometry(mode) ==
    [DCACHE_SIZE  |-> 2 * CACHE_LINESIZE, DCACHE_ASSOC  |-> 2,
     ICACHE_SIZE  |-> 2 * CACHE_LINESIZE, ICACHE_ASSOC  |-> 2,
     L2CACHE_SIZE |-> 4 * CACHE_LINESIZE, L2CACHE_ASSOC |-> 2,
     NUM_CORES    |-> IF mode = "DEF" THEN 2 ELSE 1]

\* byte addresses 65, 2^39 + 64 and 192: lines 1, 2^33 + 1 and 3
AssocAddrs == {{0, 6}, {6, 39}, {6, 7}}

InitAssoc == \E k \in Configs : Created(k, AssocGeometry(k.mode), 1)

AssocAccess == Reference(AssocAddrs, AccessTypes, MemsysCores(SIM_MODE), MaxAssocRefs)

NextAssoc == AssocAccess \/ AdvanceCycle

SpecAssoc == InitAssoc /\ [][NextAssoc]_vars

\* no two valid ways of one set of cache c carry the same tag and core
NoDuplicate(c) ==
    \A s \in 0..(c.sets - 1) :
        \A v \in ValidWays(c, s), w \in ValidWays(c, s) :
            (/\ c.cacheGrid[s].row[v].tag = c.cacheGrid[s].row[w].tag
             /\ c.cacheGrid[s].row[v].coreID = c.cacheGrid[s].row[w].coreID) => v = w

\* the call at position j is a cache_access or cache_install on the cache `name`
OnCache(j, name) ==
    last.ev[j].call \in {"cache_access", "cache_install"} /\ last.ev[j].cache = name

\* the install at position j follows a miss on the same line in the same cache,
\* with no call on that cache in between
InstallAfterMiss(j) ==
    \E i \in Events :
        /\ i < j
        /\ last.ev[i].call = "cache_access"
        /\ last.ev[i].cache = last.ev[j].cache
        /\ last.ev[i].outcome = "MISS"
        /\ last.ev[i].line_addr = last.ev[j].line_addr
        /\ \A k \in (i + 1)..(j - 1) : ~OnCache(k, last.ev[j].cache)

\* C32: in any mode no cache ever holds two valid ways of one set with the same
\* (tag, coreID): every install comes right after a miss on the same address by
\* the same core in the same cache, that cache being untouched in between.
C32_NoDuplicateLines ==
    /\ \A name \in CacheLabels(SIM_MODE) : NoDuplicate(GetCache(sys, name))
    /\ \A j \in Events : last.ev[j].call = "cache_install" => InstallAfterMiss(j)

\* a reference that filled the second way of an L1 set and of an L2 set
C32_Witness ==
    /\ Hierarchy
    /\ last.op = "memsys_access"
    /\ \E j \in Events : IsL1Install(j)
                         /\ Cardinality(ValidWays(GetCache(sys, last.ev[j].cache), 0)) = 2
    /\ \E s \in 0..(sys.l2cache.sets - 1) : Cardinality(ValidWays(sys.l2cache, s)) = 2

\* the sum of f[x] over the set S
RECURSIVE SumOver(_, _)
SumOver(f, S) ==
    IF S = {} THEN 0
    ELSE LET x == CHOOSE y \in S : TRUE IN f[x] + SumOver(f, S \ {x})

\* the misses of the L1 caches
L1Misses ==
    SumOver([name \in ICacheLabels \cup DCacheLabels |->
               GetCache(sys, name).stat_read_miss + GetCache(sys, name).stat_write_miss],
            ICacheLabels \cup DCacheLabels)

\* the dirty evictions of the data caches
DcacheDirtyEvicts ==
    SumOver([name \in DCacheLabels |-> GetCache(sys, name).stat_dirty_evicts],
            DCacheLabels)

\* C33: in modes B-F, in every reachable state, l2cache.stat_read_access is the
\* number of L1 misses, l2cache.stat_write_access the number of dirty evictions
\* of the data caches, and dram.stat_read_access the number of L2 misses, read
\* and write: every L2 miss, a writeback miss too, makes one DRAM read.
C33_DemandPathConserved ==
    Hierarchy =>
        /\ sys.l2cache.stat_read_access = L1Misses
        /\ sys.l2cache.stat_write_access = DcacheDirtyEvicts
        /\ sys.dram.stat_read_access
             = sys.l2cache.stat_read_miss + sys.l2cache.stat_write_miss

\* a writeback that missed in the L2
C33_Witness ==
    /\ Hierarchy
    /\ sys.l2cache.stat_write_miss > 0
    /\ DcacheDirtyEvicts > 0
    /\ \E i \in Events : IsWriteback(i) /\ IsL2Lookup(i + 1) /\ last.ev[i + 1].outcome = "MISS"

---------------------------------------------------------------------------
(* Translation across cores (SpecTranslate) *)

\* the page numbers of the lines that are translated
TranslateVpns ==
    {ShiftRight(v, Log2(PAGE_SIZE) - Log2(CACHE_LINESIZE)) : v \in TranslateLines}

\* the frame of the last translation
LastFrame == ShiftRight(last.p_line_addr, Log2(PAGE_SIZE) - Log2(CACHE_LINESIZE))

\* the (vpn, core) pairs, other than that of the last translation, that are
\* given the frame of the last translation
SameFrame ==
    {p \in TranslateVpns \X {0, 1} :
        /\ p # <<last.vpn, last.core_id>>
        /\ memsys_convert_vpn_to_pfn(p[1], p[2]) = LastFrame}

\* vpn >> 20
HeadOf(vpn) == ShiftRight(vpn, VPN_TAIL_BITS)

\* C34: translation is injective across cores: two distinct pairs (vpn, core)
\* with cores in {0, 1} never get the same frame.
C34_TranslationInjective ==
    last.op = "translate" => SameFrame = {}

\* C34 as far as it holds: a frame is shared only by pairs of different cores
\* whose page numbers differ above bit 20; one core never maps two pages to
\* one frame
C34_InjectiveWithinCore ==
    last.op = "translate" =>
        \A p \in SameFrame : p[2] # last.core_id /\ HeadOf(p[1]) # HeadOf(last.vpn)

---------------------------------------------------------------------------
(* The range of the dynamic quota (SpecPartition) *)

\* C35: in every reachable state 0 <= DWP_CORE0_WAYS <= W, W being the
\* associativity of the cache whose DWP victim search wrote it; it is 0 until
\* the first such search.
C35_DynamicQuotaInRange ==
    /\ DWP_CORE0_WAYS >= 0
    /\ DWP_CORE0_WAYS <= sys.dcache.ways
    /\ (sys.dcache.policy # "DWP" => DWP_CORE0_WAYS = 0)

\* a DWP search on a full set that gave core 0 every way of the cache
C35_Witness ==
    /\ FullSearch("DWP")
    /\ last.dwp < sys.dcache.ways
    /\ DWP_CORE0_WAYS = sys.dcache.ways

---------------------------------------------------------------------------
(* Core 0 filling its static quota: one set of two ways under SWP, the    *)
(* quota 1 or 2 (SpecQuota, SpecQuotaLive).                                *)

\* a data cache of one set with two ways
QuotaGeometry == [DCACHE_SIZE |-> 2 * CACHE_LINESIZE, DCACHE_ASSOC |-> 2,
                  ICACHE_SIZE |-> 2 * CACHE_LINESIZE, ICACHE_ASSOC |-> 2,
                  L2CACHE_SIZE |-> 2 * CACHE_LINESIZE, L2CACHE_ASSOC |-> 2,
                  NUM_CORES |-> 2]

\* two lines of the one set
QuotaLines == {Word(0), Word(1)}

InitQuota ==
    /\ SIM_MODE = "A"
    /\ REPL_POLICY = "SWP"
    /\ L2CACHE_REPL = "LRU"
    /\ DRAM_PAGE_POLICY = "OPEN_PAGE"
    /\ SWP_CORE0_WAYS \in 1..QuotaGeometry.DCACHE_ASSOC
    /\ DWP_CORE0_WAYS = 0
    /\ current_cycle = 0
    /\ sys = memsys_new("A", QuotaGeometry, REPL_POLICY, L2CACHE_REPL)
    /\ last = NoCall
    /\ resident = {}
    /\ origin = <<>>
    /\ hist = <<>>
    /\ steps = 0

\* ways_per_core[0] of the one set
QuotaWays0 == sys.dcache.cacheGrid[0].ways_per_core[0]

\* a lookup that hits
QuotaHit ==
    /\ steps < MaxQuota
    /\ \E core_id \in Cores, line_addr \in QuotaLines :
         \E r \in {cache_access(sys.dcache, line_addr, FALSE, core_id, current_cycle)} :
            /\ r.outcome = "HIT"
            /\ sys' = [sys EXCEPT !.dcache = r.c]
            /\ last' = [op |-> "cache_access", line_addr |-> line_addr,
                        core_id |-> core_id, outcome |-> r.outcome, way |-> r.way]
    /\ steps' = steps + 1
    /\ UNCHANGED <<config, DWP_CORE0_WAYS, current_cycle, resident, origin, hist>>

\* a lookup by core_id that misses, and the install that follows it.  The
\* misses of core 0 below its quota are not counted in steps: core 0 can keep
\* missing until its quota is filled.
QuotaMiss(core_id) ==
    /\ steps < MaxQuota \/ (core_id = 0 /\ QuotaWays0 < SWP_CORE0_WAYS)
    /\ \E line_addr \in QuotaLines :
         \E r \in {cache_access(sys.dcache, line_addr, FALSE, core_id, current_cycle)} :
            /\ r.outcome = "MISS"
            /\ \E i \in {cache_install(r.c, line_addr, FALSE, core_id, current_cycle,
                                       SWP_CORE0_WAYS, DWP_CORE0_WAYS, 0)} :
                 /\ sys' = [sys EXCEPT !.dcache = i.c]
                 /\ DWP_CORE0_WAYS' = i.dwp
                 /\ last' = [op |-> "cache_install", line_addr |-> line_addr,
                             core_id |-> core_id, outcome |-> r.outcome, way |-> i.way]
    /\ steps' = IF core_id = 0 /\ QuotaWays0 < SWP_CORE0_WAYS THEN steps ELSE steps + 1
    /\ UNCHANGED <<config, current_cycle, resident, origin, hist>>

Core0Miss == QuotaMiss(0)

Core1Miss == QuotaMiss(1)

NextQuota == QuotaHit \/ Core0Miss \/ Core1Miss \/ AdvanceCycle

SpecQuota == InitQuota /\ [][NextQuota]_vars

\* core 0 keeps missing in the set
SpecQuotaLive == SpecQuota /\ WF_vars(Core0Miss)

\* the set is full and core 0 is below its quota
BelowQuota == FullSet(sys.dcache, 0) /\ QuotaWays0 < SWP_CORE0_WAYS

\* the step installed a line: every install follows a counted miss
InstallStep == sys'.dcache.stat_read_miss # sys.dcache.stat_read_miss

\* what a step from a full set below the quota does to ways_per_core[0]
QuotaStep ==
    BelowQuota =>
        /\ QuotaWays0' >= QuotaWays0
        /\ InstallStep =>
             /\ sys'.dcache.lastEvictedLine.valid
             /\ sys'.dcache.lastEvictedLine.coreID = 1
             /\ QuotaWays0' = QuotaWays0 + (IF last'.core_id = 0 THEN 1 ELSE 0)

\* C36: under SWP with 0 < Q = SWP_CORE0_WAYS <= W, on a full set with
\* ways_per_core[0] < Q every install evicts a line of core 1: ways_per_core[0]
\* never decreases while it is below Q, an install requested by core 0 raises
\* it by exactly 1, and if core 0 keeps missing in the set ways_per_core[0]
\* eventually reaches Q.
C36_Core0ReachesQuota ==
    /\ [][QuotaStep]_vars
    /\ BelowQuota ~> (QuotaWays0 >= SWP_CORE0_WAYS)

\* core 0, one below a quota of at least two ways in a full set, has just taken
\* a line of core 1 and reached its quota
C36_Witness ==
    /\ last.op = "cache_install"
    /\ last.core_id = 0
    /\ sys.dcache.lastEvictedLine.valid
    /\ sys.dcache.lastEvictedLine.coreID = 1
    /\ SWP_CORE0_WAYS >= 2
    /\ QuotaWays0 = SWP_CORE0_WAYS

=============================================================================
